---------------------------- MODULE Spec2Model ----------------------------
(***************************************************************************)
(* A model of the orphaned-prefix cleanup tools: the namespace enumerators *)
(* (list_data_prefixes.py, list_backup_prefixes.py), the dirty-set         *)
(* resolvers (get_final_dirty_data_prefix.py,                              *)
(* get_final_dirty_backup_prefix.py) and the deletion engine               *)
(* (delete_prefixes.py).                                                   *)
(*                                                                         *)
(* A Python str is a sequence of one-character strings: "a/b" is           *)
(* <<"a", "/", "b">>.  A Python list is a sequence, a set a set, a dict a  *)
(* function.                                                               *)
(***************************************************************************)
EXTENDS Integers, Sequences, FiniteSets, TLC

VARIABLES
    \* ---- resolver run (get_final_dirty_*_prefix.py main) ----
    r_pc,             \* position of main: "start", "found", "written"
    r_variant,        \* which script runs: "data" or "backup"
    r_prefixes,       \* data_prefixes / backup_prefixes as loaded
    r_allow,          \* non_terminated_uuids as loaded
    r_dirty,          \* dirty_paths returned by find_dirty_*_prefixes
    r_output,         \* output_data["dirty_paths"] as written
    r_lines,          \* the lines of the allow-list file
    r_file,           \* the discovered-paths file: [format, prefixes, has_sizes, sizes]
    prefix_sizes,     \* the sizes load_*_prefixes returned
    dirty_sizes,      \* dirty_sizes of main
    r_output_sizes,   \* output_data["dirty_paths_sizes_bytes"]: [present, value]
    r_summary,        \* output_data["summary"]: [present, value]
    \* ---- deletion engine run (delete_prefixes.py main) ----
    e_pc,             \* position of main: "load", "summary", "confirm", "client",
                      \* "submit", "collect", "unwind", "report", "log",
                      \* "finish", "exit"
    e_exit,           \* exit status of the process, -1 while it runs
    e_crashed,        \* the process died of an uncaught exception
    e_file,           \* the --input file: [kind, dirty_paths]
    e_dry_run,        \* args.dry_run
    e_workers,        \* args.workers
    e_discovered,     \* the discovered paths the input file was resolved from
    e_allow,          \* the allow-list the input file was resolved against
    dirty_paths,      \* dirty_paths as loaded by main
    e_answer,         \* what get_confirmation returned: "none", "yes", "no"
    e_reprompts,      \* "Please type 'yes' or 'no'" messages printed
    e_stdin,          \* the lines the user types at the prompt, in order
    e_read,           \* how many of them input() has returned
    e_client,         \* create_s3_client has been called
    bucket,           \* the keys in the bucket, in listing order
    tasks,            \* the futures of delete_prefixes_concurrent, by submission
    results,          \* results: prefix -> <<total_objects, deleted, errors>>
    completed,        \* the collecting loop's counter
    e_report,         \* the totals and failed_prefixes main computes
    \* ---- enumerator run (list_data_prefixes.py, list_backup_prefixes.py) ----
    l_pc,             \* position of collect_all_*_prefixes: "submit", "collect",
                      \* "listed"
    l_variant,        \* which script runs: "data" or "backup"
    l_workers,        \* args.workers
    l_store,          \* the keys in the bucket, in listing order
    ch_s3_prefixes,   \* the candidates, in submission order
    l_tasks,          \* the futures of the listing phase, by submission
    uuid_to_prefixes, \* candidate -> sorted list of its children
    all_next_level_prefixes,  \* the union of all children
    completed_count,  \* the collecting loop's counter
    l_written,        \* the keys the collecting loop has assigned, in order
    sorted_full_paths,  \* the discovered paths, sorted
    s_tasks,          \* the futures of the sizing phase, by submission
    prefix_to_size,   \* full path -> total size in bytes
    l_output,         \* output_data as written to the output file
    \* ---- discovery of the backup enumerator (discover_ch_s3_prefixes) ----
    d_pc,             \* "idle", "discover", "discovered", "listing", "returned"
    d_store,          \* the keys in the bucket, in listing order
    d_ch_s3_prefixes, \* ch_s3_prefixes of discover_ch_s3_prefixes, as appended
    d_continuation_token,  \* continuation_token, 0 for None
    d_requests,       \* list_objects_v2 requests made
    d_failed_request, \* the request that raised, 0 when none did
    d_result,         \* what discover_ch_s3_prefixes returned
    \* ---- the deletion engine run again on the same input ----
    e_run,            \* 1 in the first run of the engine, 2 in the second
    e_first,          \* the tasks and the exit status of the first run
    \* ---- the object store ----
    s3_endless        \* the store puts a continuation token on every page

resolverVars == <<r_pc, r_variant, r_prefixes, r_allow, r_dirty, r_output,
                  r_lines, r_file, prefix_sizes, dirty_sizes, r_output_sizes,
                  r_summary>>

engineVars == <<e_pc, e_exit, e_crashed, e_file, e_dry_run, e_workers,
                e_discovered, e_allow, dirty_paths, e_answer, e_reprompts, e_stdin,
                   e_read,
                e_client, bucket, tasks, results, completed, e_report>>

enumVars == <<l_pc, l_variant, l_workers, l_store, ch_s3_prefixes, l_tasks,
              uuid_to_prefixes, all_next_level_prefixes, completed_count,
              l_written>>

sizeVars == <<sorted_full_paths, s_tasks, prefix_to_size, l_output>>

discoverVars == <<d_pc, d_store, d_ch_s3_prefixes, d_continuation_token,
                  d_requests, d_failed_request, d_result>>

rerunVars == <<e_run, e_first>>

storeVars == <<s3_endless>>

vars == <<resolverVars, engineVars, enumVars, sizeVars, discoverVars, rerunVars,
          storeVars>>

-----------------------------------------------------------------------------
(* Bounds of the model *)

\* entries the store returns in one page of a listing
PageSize == 2

\* longest list of discovered paths handed to a resolver
MaxPrefixes == 3

\* largest --workers value
MaxWorkers == 2

\* unrecognized answers the user may give before 'yes' or 'no'
MaxReprompts == 1

\* longest dirty-path list of a hand-written input file
MaxListed == 2

\* list_objects_v2 requests one listing loop is followed for
MaxRequests == 5

\* most objects under one path in the bulk scenarios
MaxBulkKeys == 2500

-----------------------------------------------------------------------------
(* Python str and list primitives *)

Range(s) == {s[i] : i \in 1..Len(s)}

\* the characters of the model, in code-point order ('-' < '/' < digits < letters)
CharOrder == <<"\n", " ", "-", "/", "1", "2", "3", "E", "N", "O", "S", "Y",
               "a", "b", "c", "e", "h", "m", "n", "o", "s", "x", "y">>

Rank(c) == CHOOSE i \in 1..Len(CharOrder) : CharOrder[i] = c

\* Python's str `<`: lexicographic by code point, a proper prefix is smaller
RECURSIVE StrLess(_, _)
StrLess(a, b) ==
    IF b = <<>> THEN FALSE
    ELSE IF a = <<>> THEN TRUE
    ELSE IF a[1] # b[1] THEN Rank(a[1]) < Rank(b[1])
    ELSE StrLess(Tail(a), Tail(b))

\* str.startswith
startswith(s, p) ==
    /\ Len(p) <= Len(s)
    /\ \A i \in 1..Len(p) : s[i] = p[i]

\* str.endswith
endswith(s, p) ==
    /\ Len(p) <= Len(s)
    /\ \A i \in 1..Len(p) : s[Len(s) - Len(p) + i] = p[i]

\* str.split(sep) for a one-character separator: always at least one part
RECURSIVE split(_, _)
split(s, sep) ==
    IF \A i \in 1..Len(s) : s[i] # sep
    THEN <<s>>
    ELSE LET k == CHOOSE i \in 1..Len(s) :
                      s[i] = sep /\ \A j \in 1..(i - 1) : s[j] # sep
         IN  <<SubSeq(s, 1, k - 1)>> \o split(SubSeq(s, k + 1, Len(s)), sep)

\* list.insert keeping order: x goes after every element not greater than it
RECURSIVE InsertSorted(_, _)
InsertSorted(x, s) ==
    IF s = <<>> THEN <<x>>
    ELSE IF StrLess(x, s[1]) THEN <<x>> \o s
    ELSE <<s[1]>> \o InsertSorted(x, Tail(s))

\* sorted(list_of_str): ascending, stable, duplicates kept
RECURSIVE sorted(_)
sorted(s) ==
    IF s = <<>> THEN <<>>
    ELSE InsertSorted(s[Len(s)], sorted(SubSeq(s, 1, Len(s) - 1)))

\* every sequence over S of length at most n
SeqsUpTo(S, n) == UNION {[1..k -> S] : k \in 0..n}

\* str.strip: leading and trailing blanks removed
RECURSIVE strip(_)
strip(s) ==
    IF s = <<>> THEN s
    ELSE IF s[1] = " " THEN strip(Tail(s))
    ELSE IF s[Len(s)] = " " THEN strip(SubSeq(s, 1, Len(s) - 1))
    ELSE s

\* sum(f[x] for x in S)
RECURSIVE SumOver(_, _)
SumOver(S, f) ==
    IF S = {} THEN 0
    ELSE LET x == CHOOSE y \in S : TRUE IN f[x] + SumOver(S \ {x}, f)

\* the sequence of the elements of S (a set of str) in ascending order
RECURSIVE SortedSeqOf(_)
SortedSeqOf(S) ==
    IF S = {} THEN <<>>
    ELSE LET x == CHOOSE y \in S : TRUE IN InsertSorted(x, SortedSeqOf(S \ {x}))

-----------------------------------------------------------------------------
(* Dirty-set resolvers *)

\* extract_uuid_from_path taking the first part
extract_uuid_from_path_first_part(full_path) == split(full_path, "/")[1]

extract_uuid_from_path(full_path) ==
    LET parts == split(full_path, "/")
    IN  IF Len(parts) >= 2 THEN parts[Len(parts)] ELSE full_path

extract_next_level_uuid_from_path(full_path) ==
    LET parts == split(full_path, "/")
    IN  IF Len(parts) >= 2 THEN parts[Len(parts)] ELSE full_path

\* a plausible slip: the membership test inverted
find_dirty_data_prefixes_inverted(data_prefixes, non_terminated_uuids) ==
    SelectSeq(data_prefixes,
              LAMBDA full_path :
                  extract_uuid_from_path(full_path) \in non_terminated_uuids)

\* the dirty_paths list the loop builds (dirty_sizes is returned empty)
find_dirty_data_prefixes(data_prefixes, non_terminated_uuids) ==
    SelectSeq(data_prefixes,
              LAMBDA full_path :
                  extract_uuid_from_path(full_path) \notin non_terminated_uuids)

find_dirty_backup_prefixes(backup_prefixes, non_terminated_uuids) ==
    SelectSeq(backup_prefixes,
              LAMBDA full_path :
                  extract_next_level_uuid_from_path(full_path)
                      \notin non_terminated_uuids)

\* str.find: the position of the first occurrence of old in s, 0 for none
find(s, old) ==
    LET at == {i \in 1..(Len(s) - Len(old) + 1) :
                  SubSeq(s, i, i + Len(old) - 1) = old}
    IN  IF at = {} THEN 0 ELSE CHOOSE i \in at : \A j \in at : i <= j

\* str.replace(old, "", 1): the first occurrence of old removed
replace_first(s, old) ==
    IF find(s, old) = 0 THEN s
    ELSE SubSeq(s, 1, find(s, old) - 1) \o SubSeq(s, find(s, old) + Len(old), Len(s))

\* the literal 'ch-s3-'
ch_s3 == <<"c", "h", "-", "s", "3", "-">>

\* load_non_terminated_uuids keeping the literal
load_non_terminated_uuids_unstripped(lines) ==
    {strip(lines[i]) : i \in {i \in 1..Len(lines) : strip(lines[i]) # <<>>}}

\* load_non_terminated_uuids of get_final_dirty_data_prefix.py: the set of
\* the trimmed, non-blank lines, one leading 'ch-s3-' removed
load_non_terminated_uuids(lines) ==
    {IF startswith(strip(lines[i]), ch_s3)
     THEN replace_first(strip(lines[i]), ch_s3)
     ELSE strip(lines[i]) :
        i \in {i \in 1..Len(lines) : strip(lines[i]) # <<>>}}

\* load_non_terminated_uuids of get_final_dirty_backup_prefix.py
load_non_terminated_uuids_backup(lines) ==
    {IF startswith(strip(lines[i]), ch_s3)
     THEN replace_first(strip(lines[i]), ch_s3)
     ELSE strip(lines[i]) :
        i \in {i \in 1..Len(lines) : strip(lines[i]) # <<>>}}

\* load_data_prefixes / load_backup_prefixes: (prefixes, sizes) of the new
\* format, (data, {}) of the old one, ValueError for anything else
load_data_prefixes(file) ==
    IF file.format = "dict"
    THEN [raised |-> FALSE, prefixes |-> file.prefixes,
          sizes |-> IF file.has_sizes THEN file.sizes ELSE <<>>]
    ELSE IF file.format = "list"
    THEN [raised |-> FALSE, prefixes |-> file.prefixes, sizes |-> <<>>]
    ELSE [raised |-> TRUE, prefixes |-> <<>>, sizes |-> <<>>]

\* dict.get(key, default)
dict_get(d, key, default) == IF key \in DOMAIN d THEN d[key] ELSE default

\* main writing a size entry for every dirty path whatever the input held
build_dirty_sizes_always(sizes, dirty) ==
    [path \in Range(dirty) |-> dict_get(sizes, path, 0)]

\* main: dirty_sizes, filled only when the input carried sizes
build_dirty_sizes(sizes, dirty) ==
    IF sizes # <<>>
    THEN [path \in Range(dirty) |-> dict_get(sizes, path, 0)]
    ELSE <<>>

\* main writing the size map without looking the sizes up
output_sizes_zeroed(sizes, sorted_dirty_paths) ==
    IF sizes # <<>>
    THEN [present |-> TRUE, value |-> [path \in Range(sorted_dirty_paths) |-> 0]]
    ELSE [present |-> FALSE, value |-> <<>>]

\* main: output_data["dirty_paths_sizes_bytes"], written only when
\* dirty_sizes is not empty
output_sizes(sizes, sorted_dirty_paths) ==
    IF sizes # <<>>
    THEN [present |-> TRUE,
          value |-> [path \in Range(sorted_dirty_paths) |-> dict_get(sizes, path, 0)]]
    ELSE [present |-> FALSE, value |-> <<>>]

\* main: output_data["summary"]
output_summary(sizes, sorted_dirty_paths) ==
    IF sizes # <<>>
    THEN [present |-> TRUE,
          value |-> [total_dirty_paths |-> Len(sorted_dirty_paths),
                     total_dirty_size_bytes |-> SumOver(DOMAIN sizes, sizes)]]
    ELSE [present |-> FALSE, value |-> <<>>]

\* the paths a resolver may be given and the identifiers an allow-list may hold
ResolverPaths ==
    { <<"a", "/", "b">>, <<"a", "/", "b", "x">>, <<"c", "/", "b">>,
      <<"a", "/", "c", "/", "b">>, <<"b">>, <<"a", "/">> }

ResolverIds == { <<"b">>, <<"b", "x">>, <<"a">>, <<>> }

\* an allow-list file that loads as the set ids: one line per identifier, the
\* bare literal for the empty identifier
AllowFileOf(ids) ==
    SortedSeqOf({IF id = <<>> THEN ch_s3 ELSE id : id \in ids})

\* a resolver that has loaded a list-format file and an allow-list
ResolverInit ==
    /\ r_pc = "start"
    /\ r_variant \in {"data", "backup"}
    /\ r_prefixes \in SeqsUpTo(ResolverPaths, MaxPrefixes)
    /\ r_allow \in SUBSET ResolverIds
    /\ r_dirty = <<>>
    /\ r_output = <<>>
    /\ r_lines = AllowFileOf(r_allow)
    /\ r_file = [format |-> "list", prefixes |-> r_prefixes,
                 has_sizes |-> FALSE, sizes |-> <<>>]
    /\ prefix_sizes = <<>>
    /\ dirty_sizes = <<>>
    /\ r_output_sizes = [present |-> FALSE, value |-> <<>>]
    /\ r_summary = [present |-> FALSE, value |-> <<>>]

\* main: load_data_prefixes / load_backup_prefixes and
\* load_non_terminated_uuids; an unexpected format ends the run
LoadFiles ==
    /\ r_pc = "load"
    /\ IF load_data_prefixes(r_file).raised
       THEN /\ r_pc' = "failed"
            /\ UNCHANGED <<r_prefixes, prefix_sizes, r_allow>>
       ELSE /\ r_pc' = "start"
            /\ r_prefixes' = load_data_prefixes(r_file).prefixes
            /\ prefix_sizes' = load_data_prefixes(r_file).sizes
            /\ r_allow' = IF r_variant = "data"
                          THEN load_non_terminated_uuids(r_lines)
                          ELSE load_non_terminated_uuids_backup(r_lines)
    /\ UNCHANGED <<r_variant, r_dirty, r_output, r_lines, r_file, dirty_sizes,
                   r_output_sizes, r_summary>>
    /\ UNCHANGED <<storeVars, discoverVars, rerunVars, engineVars, enumVars, sizeVars>>

\* main: the call of find_dirty_data_prefixes / find_dirty_backup_prefixes,
\* and the sizes of the dirty paths
FindDirty ==
    /\ r_pc = "start"
    /\ r_dirty' = IF r_variant = "data"
                  THEN find_dirty_data_prefixes(r_prefixes, r_allow)
                  ELSE find_dirty_backup_prefixes(r_prefixes, r_allow)
    /\ dirty_sizes' = build_dirty_sizes(prefix_sizes, r_dirty')
    /\ r_pc' = "found"
    /\ UNCHANGED <<r_variant, r_prefixes, r_allow, r_output, r_lines, r_file,
                   prefix_sizes, r_output_sizes, r_summary>>
    /\ UNCHANGED <<storeVars, discoverVars, rerunVars, engineVars, enumVars, sizeVars>>

\* main: sorted_dirty_paths = sorted(dirty_paths), output_data and its dump
WriteDirty ==
    /\ r_pc = "found"
    /\ r_output' = sorted(r_dirty)
    /\ r_output_sizes' = output_sizes(dirty_sizes, sorted(r_dirty))
    /\ r_summary' = output_summary(dirty_sizes, sorted(r_dirty))
    /\ r_pc' = "written"
    /\ UNCHANGED <<r_variant, r_prefixes, r_allow, r_dirty, r_lines, r_file,
                   prefix_sizes, dirty_sizes>>
    /\ UNCHANGED <<storeVars, discoverVars, rerunVars, engineVars, enumVars, sizeVars>>

\* no resolver runs
ResolverIdle ==
    /\ r_pc = "idle"
    /\ r_variant = "data"
    /\ r_prefixes = <<>>
    /\ r_allow = {}
    /\ r_dirty = <<>>
    /\ r_output = <<>>
    /\ r_lines = <<>>
    /\ r_file = [format |-> "list", prefixes |-> <<>>, has_sizes |-> FALSE,
                 sizes |-> <<>>]
    /\ prefix_sizes = <<>>
    /\ dirty_sizes = <<>>
    /\ r_output_sizes = [present |-> FALSE, value |-> <<>>]
    /\ r_summary = [present |-> FALSE, value |-> <<>>]

ResolverNext == FindDirty \/ WriteDirty

\* longest allow-list file, and longest list in a discovered-paths file
MaxLines == 2

MaxFilePaths == 2

\* the lines an allow-list file may hold
AllowLines ==
    { <<"b">>, <<" ", "b", " ">>, ch_s3 \o <<"b">>, <<>>, <<" ">>,
      ch_s3 \o ch_s3 \o <<"b">> }

\* the paths a discovered-paths file may hold and the sizes it gives them
FilePaths == { <<"a", "/", "b">>, <<"a", "/">> \o ch_s3 \o <<"b">>, <<"b">> }

FileSize(path) == IF path = <<"b">> THEN 0 ELSE Len(path)

\* the discovered-paths files: the old list format, the new format without
\* sizes, with an empty size map, with a size for every path or only for
\* its first path, and a file that is neither
FilesOf(prefixes) ==
    { [format |-> "list", prefixes |-> prefixes, has_sizes |-> FALSE, sizes |-> <<>>],
      [format |-> "dict", prefixes |-> prefixes, has_sizes |-> FALSE, sizes |-> <<>>],
      [format |-> "dict", prefixes |-> prefixes, has_sizes |-> TRUE, sizes |-> <<>>],
      [format |-> "dict", prefixes |-> prefixes, has_sizes |-> TRUE,
       sizes |-> [q \in Range(prefixes) |-> FileSize(q)]],
      [format |-> "dict", prefixes |-> prefixes, has_sizes |-> TRUE,
       sizes |-> [q \in {prefixes[i] : i \in DOMAIN prefixes \cap {1}} |-> FileSize(q)]],
      [format |-> "other", prefixes |-> <<>>, has_sizes |-> FALSE, sizes |-> <<>>] }

\* a resolver run from its two input files
ResolverFilesInit ==
    /\ r_pc = "load"
    /\ r_variant \in {"data", "backup"}
    /\ r_lines \in SeqsUpTo(AllowLines, MaxLines)
    /\ \E prefixes \in SeqsUpTo(FilePaths, MaxFilePaths) : r_file \in FilesOf(prefixes)
    /\ r_prefixes = <<>>
    /\ r_allow = {}
    /\ r_dirty = <<>>
    /\ r_output = <<>>
    /\ prefix_sizes = <<>>
    /\ dirty_sizes = <<>>
    /\ r_output_sizes = [present |-> FALSE, value |-> <<>>]
    /\ r_summary = [present |-> FALSE, value |-> <<>>]

ResolverFilesNext == LoadFiles \/ FindDirty \/ WriteDirty

-----------------------------------------------------------------------------
(* Deletion engine: the store and the per-prefix deletion *)

\* delete_prefix: batch_size
batch_size == 1000

\* delete_objects_batch: the most keys one call accepts
max_keys_per_call == 1000

\* seq[i:j] for 0 <= i <= j: Python's slice, clipped at the end
PySlice(s, i, j) == SubSeq(s, i + 1, IF j < Len(s) THEN j ELSE Len(s))

\* list(range(0, n, step))
PyRange(n, step) == [k \in 1..((n + step - 1) \div step) |-> (k - 1) * step]

\* how one delete_objects request may end: every key deleted, the last key
\* refused, or the call raising
DeleteOutcomes == {"deleted", "one_error", "ClientError", "Exception"}

\* s3_client.delete_objects(Bucket, Delete={Objects: keys, Quiet: False}): the
\* exception it raises ("none" when it returns) and its response, which names
\* every key under "Deleted" or under "Errors" and omits an empty list
s3_delete_objects(keys, outcome) ==
    LET n == Len(keys)
        err(k) == [Key |-> k, Code |-> "AccessDenied", Message |-> "Access Denied"]
    IN  CASE outcome = "deleted" ->
                 [raised |-> "none", response |-> [Deleted |-> keys]]
          [] outcome = "one_error" /\ n > 1 ->
                 [raised |-> "none",
                  response |-> [Deleted |-> SubSeq(keys, 1, n - 1),
                                Errors |-> <<err(keys[n])>>]]
          [] outcome = "one_error" /\ n <= 1 ->
                 [raised |-> "none",
                  response |-> [Errors |-> [i \in 1..n |-> err(keys[i])]]]
          [] OTHER ->
                 [raised |-> outcome, response |-> <<>>]

\* the bucket once the store has deleted `gone`
bucket_without(b, gone) ==
    IF gone = <<>> THEN b
    ELSE LET g == Range(gone) IN SelectSeq(b, LAMBDA k : k \notin g)

\* the keys a delete_objects request removes from the bucket
s3_deleted_keys(keys, outcome) ==
    LET r == s3_delete_objects(keys, outcome)
    IN  IF r.raised = "none" /\ "Deleted" \in DOMAIN r.response
        THEN r.response.Deleted ELSE <<>>

\* f"{error['Key']}: {error['Code']} - {error['Message']}"
key_error_message(error) ==
    [label |-> "", Key |-> error.Key, Code |-> error.Code, Message |-> error.Message]

\* f"ClientError: {e}" and f"Unexpected error: {e}"
call_error_message(label) ==
    [label |-> label, Key |-> <<>>, Code |-> "", Message |-> "e"]

\* a plausible slip: no handler for ClientError, which then leaves the function
delete_objects_batch_unhandled(keys, outcome) ==
    IF keys = <<>> THEN [raised |-> "none", deleted |-> 0, errors |-> <<>>]
    ELSE IF Len(keys) > max_keys_per_call
    THEN [raised |-> "ValueError", deleted |-> 0, errors |-> <<>>]
    ELSE LET r == s3_delete_objects(keys, outcome)
         IN  IF r.raised = "ClientError"
             THEN [raised |-> "ClientError", deleted |-> 0, errors |-> <<>>]
             ELSE IF r.raised = "Exception"
             THEN [raised |-> "none", deleted |-> 0,
                   errors |-> <<call_error_message("Unexpected error")>>]
             ELSE [raised |-> "none",
                   deleted |-> IF "Deleted" \in DOMAIN r.response
                               THEN Len(r.response.Deleted) ELSE 0,
                   errors |-> IF "Errors" \in DOMAIN r.response
                              THEN [i \in 1..Len(r.response.Errors) |->
                                       key_error_message(r.response.Errors[i])]
                              ELSE <<>>]

\* a plausible slip: the bare `except Exception` re-raises instead of recording
delete_objects_batch_reraising(keys, outcome) ==
    IF keys = <<>> THEN [raised |-> "none", deleted |-> 0, errors |-> <<>>]
    ELSE IF Len(keys) > max_keys_per_call
    THEN [raised |-> "ValueError", deleted |-> 0, errors |-> <<>>]
    ELSE LET r == s3_delete_objects(keys, outcome)
         IN  IF r.raised = "ClientError"
             THEN [raised |-> "none", deleted |-> 0,
                   errors |-> <<call_error_message("ClientError")>>]
             ELSE IF r.raised = "Exception"
             THEN [raised |-> "Exception", deleted |-> 0, errors |-> <<>>]
             ELSE [raised |-> "none",
                   deleted |-> IF "Deleted" \in DOMAIN r.response
                               THEN Len(r.response.Deleted) ELSE 0,
                   errors |-> IF "Errors" \in DOMAIN r.response
                              THEN [i \in 1..Len(r.response.Errors) |->
                                       key_error_message(r.response.Errors[i])]
                              ELSE <<>>]

\* a plausible slip: a call that failed as a whole is counted as deleted
delete_objects_batch_counting_sent(keys, outcome) ==
    IF keys = <<>> THEN [raised |-> "none", deleted |-> 0, errors |-> <<>>]
    ELSE IF Len(keys) > max_keys_per_call
    THEN [raised |-> "ValueError", deleted |-> 0, errors |-> <<>>]
    ELSE LET r == s3_delete_objects(keys, outcome)
         IN  IF r.raised # "none"
             THEN [raised |-> "none", deleted |-> Len(keys), errors |-> <<>>]
             ELSE [raised |-> "none",
                   deleted |-> IF "Deleted" \in DOMAIN r.response
                               THEN Len(r.response.Deleted) ELSE 0,
                   errors |-> IF "Errors" \in DOMAIN r.response
                              THEN [i \in 1..Len(r.response.Errors) |->
                                       key_error_message(r.response.Errors[i])]
                              ELSE <<>>]

\* delete_objects_batch: [raised, deleted, errors]; raised is the exception
\* that leaves the function ("none" when it returns (deleted, errors))
delete_objects_batch(keys, outcome) ==
    IF keys = <<>> THEN [raised |-> "none", deleted |-> 0, errors |-> <<>>]
    ELSE IF Len(keys) > max_keys_per_call
    THEN [raised |-> "ValueError", deleted |-> 0, errors |-> <<>>]
    ELSE LET r == s3_delete_objects(keys, outcome)
         IN  IF r.raised = "ClientError"
             THEN [raised |-> "none", deleted |-> 0,
                   errors |-> <<call_error_message("ClientError")>>]
             ELSE IF r.raised = "Exception"
             THEN [raised |-> "none", deleted |-> 0,
                   errors |-> <<call_error_message("Unexpected error")>>]
             ELSE [raised |-> "none",
                   deleted |-> IF "Deleted" \in DOMAIN r.response
                               THEN Len(r.response.Deleted) ELSE 0,
                   errors |-> IF "Errors" \in DOMAIN r.response
                              THEN [i \in 1..Len(r.response.Errors) |->
                                       key_error_message(r.response.Errors[i])]
                              ELSE <<>>]

\* the keys of the bucket a non-delimited listing with Prefix=prefix returns
s3_list_keys(b, prefix) == SelectSeq(b, LAMBDA k : startswith(k, prefix))

\* where a listing of n keys may stop early because a page request failed:
\* at the first request, or at the second after a first page of one key
ListFailurePoints(n) == {0} \cup {m \in {1} : m < n}

\* list_all_objects(s3_client, bucket_name, prefix): every key under the path,
\* that is every key starting with the path and a separator, in listing
\* order; a failed page request is caught and ends the listing with the keys
\* of the pages before it (stop = the number of keys fetched by then, -1 when
\* no request fails)
list_all_objects(b, prefix, stop) ==
    LET under == IF endswith(prefix, <<"/">>) THEN prefix ELSE prefix \o <<"/">>
        keys == s3_list_keys(b, under)
    IN  IF stop < 0 THEN keys ELSE SubSeq(keys, 1, stop)

\* a plausible slip: the dry_run test is missing
delete_prefix_listed_always_live(object_keys, dry_run) ==
    IF Len(object_keys) = 0
    THEN [returned |-> TRUE, ret |-> <<0, 0, <<>>>>]
    ELSE [returned |-> FALSE, ret |-> <<>>]

\* delete_prefix from the listing to the loop: what it returns at once (no
\* object, or a dry run), or that it goes on to delete
delete_prefix_listed(object_keys, dry_run) ==
    LET total_objects == Len(object_keys)
    IN  IF total_objects = 0
        THEN [returned |-> TRUE, ret |-> <<0, 0, <<>>>>]
        ELSE IF dry_run
        THEN [returned |-> TRUE, ret |-> <<total_objects, 0, <<>>>>]
        ELSE [returned |-> FALSE, ret |-> <<>>]

\* a plausible slip: the slice runs one key into the next batch
delete_prefix_batch_overlapping(object_keys, k) ==
    LET i == PyRange(Len(object_keys), batch_size)[k]
    IN  PySlice(object_keys, i, i + batch_size + 1)

\* delete_prefix: the batch of the k-th iteration of
\* `for i in range(0, total_objects, batch_size)`
delete_prefix_batch(object_keys, k) ==
    LET i == PyRange(Len(object_keys), batch_size)[k]
    IN  PySlice(object_keys, i, i + batch_size)

\* delete_prefix: the number of iterations of the loop
delete_prefix_iterations(object_keys) ==
    Len(PyRange(Len(object_keys), batch_size))

-----------------------------------------------------------------------------
(* Deletion engine: main *)

\* str.lower on the characters of the model
lower(s) ==
    [i \in 1..Len(s) |->
        CASE s[i] = "E" -> "e" [] s[i] = "N" -> "n" [] s[i] = "O" -> "o"
          [] s[i] = "S" -> "s" [] s[i] = "Y" -> "y" [] OTHER -> s[i]]

\* what the user may type at the prompt
RawResponses ==
    { <<"y", "e", "s">>, <<"n", "o">>, <<" ", "Y", "E", "S">>, <<"N", "o", " ">>,
      <<"m", "a", "y", "b", "e">> }

\* the lines among them that are not an answer
RawOthers == { <<"m", "a", "y", "b", "e">> }

\* what the user types in one run: up to MaxReprompts lines that are not an
\* answer, then an answer
UserInputs ==
    {others \o <<final>> :
        others \in SeqsUpTo(RawOthers, MaxReprompts),
        final \in RawResponses \ RawOthers}

\* get_confirmation, proceeding on whatever is not 'no'
get_confirmation_unless_no(line) ==
    LET response == lower(strip(line))
    IN  IF response = <<"n", "o">> THEN "no" ELSE "yes"

\* get_confirmation, one pass of its loop on one input line: "yes" (return
\* True), "no" (return False) or "again" (print the re-prompt and loop)
get_confirmation(line) ==
    LET response == lower(strip(line))
    IN  IF response = <<"y", "e", "s">> THEN "yes"
        ELSE IF response = <<"n", "o">> THEN "no"
        ELSE "again"

\* a plausible slip: the confirmation is asked for in a dry run only
after_summary_gate_inverted(dry_run) == IF dry_run THEN "confirm" ELSE "client"

\* main after display_summary: `if not args.dry_run:` get_confirmation
after_summary(dry_run) == IF dry_run THEN "client" ELSE "confirm"

\* what the --input file may be
FileKinds == {"ok", "missing", "invalid_json", "not_object", "no_dirty_paths",
              "dirty_paths_not_list"}

\* load_dirty_paths: the exception it raises ("none" when it returns) and the
\* dirty_paths it returns
load_dirty_paths(file) ==
    CASE file.kind = "missing" -> [raised |-> "FileNotFoundError", dirty_paths |-> <<>>]
      [] file.kind = "invalid_json" -> [raised |-> "JSONDecodeError", dirty_paths |-> <<>>]
      [] file.kind = "not_object" -> [raised |-> "ValueError", dirty_paths |-> <<>>]
      [] file.kind = "dirty_paths_not_list" -> [raised |-> "ValueError", dirty_paths |-> <<>>]
      [] file.kind = "no_dirty_paths" -> [raised |-> "none", dirty_paths |-> <<>>]
      [] OTHER -> [raised |-> "none", dirty_paths |-> file.dirty_paths]

\* main, "Load dirty paths": exit 1 when loading fails, exit 0 when there is
\* nothing to delete
LoadInput ==
    /\ e_pc = "load"
    /\ LET loaded == load_dirty_paths(e_file)
       IN  IF loaded.raised # "none"
           THEN /\ e_pc' = "exit" /\ e_exit' = 1 /\ UNCHANGED dirty_paths
           ELSE IF loaded.dirty_paths = <<>>
           THEN /\ e_pc' = "exit" /\ e_exit' = 0 /\ UNCHANGED dirty_paths
           ELSE /\ e_pc' = "summary" /\ dirty_paths' = loaded.dirty_paths
                /\ UNCHANGED e_exit
    /\ UNCHANGED <<storeVars, discoverVars, rerunVars, resolverVars, enumVars, sizeVars>>
    /\ UNCHANGED <<e_crashed, e_file, e_dry_run, e_workers, e_discovered, e_allow,
                   e_answer, e_reprompts, e_stdin,
                   e_read, e_client, bucket, tasks, results,
                   completed, e_report>>

\* main, "Display summary": display_summary prints and changes nothing
DisplaySummary ==
    /\ e_pc = "summary"
    /\ e_pc' = after_summary(e_dry_run)
    /\ UNCHANGED <<storeVars, discoverVars, rerunVars, resolverVars, enumVars, sizeVars>>
    /\ UNCHANGED <<e_exit, e_crashed, e_file, e_dry_run, e_workers, e_discovered,
                   e_allow, dirty_paths, e_answer, e_reprompts, e_stdin,
                   e_read, e_client, bucket,
                   tasks, results, completed, e_report>>

\* main, "Get confirmation": one pass of the loop of get_confirmation on the
\* next line the user types
Confirm ==
    /\ e_pc = "confirm"
    /\ e_read < Len(e_stdin)
    /\ e_read' = e_read + 1
    /\ LET answer == get_confirmation(e_stdin[e_read + 1])
       IN  CASE answer = "yes" ->
                    /\ e_answer' = "yes" /\ e_pc' = "client"
                    /\ UNCHANGED <<e_exit, e_reprompts>>
             [] answer = "no" ->
                    /\ e_answer' = "no" /\ e_pc' = "exit" /\ e_exit' = 0
                    /\ UNCHANGED e_reprompts
             [] OTHER ->
                    /\ e_reprompts' = e_reprompts + 1
                    /\ UNCHANGED <<e_pc, e_exit, e_answer>>
    /\ UNCHANGED <<storeVars, discoverVars, rerunVars, resolverVars, enumVars, sizeVars>>
    /\ UNCHANGED <<e_crashed, e_file, e_dry_run, e_workers, e_discovered, e_allow,
                   dirty_paths, e_client, bucket, tasks, results, completed,
                   e_report, e_stdin>>

\* main, "Create S3 client"
CreateClient ==
    /\ e_pc = "client"
    /\ e_client' = TRUE
    /\ e_pc' = "submit"
    /\ UNCHANGED <<storeVars, discoverVars, rerunVars, resolverVars, enumVars, sizeVars>>
    /\ UNCHANGED <<e_exit, e_crashed, e_file, e_dry_run, e_workers, e_discovered,
                   e_allow, dirty_paths, e_answer, e_reprompts, e_stdin,
                   e_read, bucket, tasks,
                   results, completed, e_report>>

\* a future just submitted
QueuedTask(prefix) ==
    [st |-> "queued", collected |-> FALSE, prefix |-> prefix,
     object_keys |-> <<>>, k |-> 0, deleted_count |-> 0, all_errors |-> <<>>,
     raised |-> "none", ret |-> <<>>,
     \* what the store saw of this task: the listing cut short by a failed
     \* request, the batches sent and how each request ended
     list_failed |-> FALSE, batches |-> <<>>, outcomes |-> <<>>,
     \* a delete_objects_batch call of this task has not returned yet
     in_flight |-> FALSE]

\* delete_prefixes_concurrent: results = {}, one future per prefix
SubmitAll ==
    /\ e_pc = "submit"
    /\ tasks' = [i \in 1..Len(dirty_paths) |-> QueuedTask(dirty_paths[i])]
    /\ results' = <<>>
    /\ completed' = 0
    /\ e_pc' = "collect"
    /\ UNCHANGED <<storeVars, discoverVars, rerunVars, resolverVars, enumVars, sizeVars>>
    /\ UNCHANGED <<e_exit, e_crashed, e_file, e_dry_run, e_workers, e_discovered,
                   e_allow, dirty_paths, e_answer, e_reprompts, e_stdin,
                   e_read, e_client, bucket,
                   e_report>>

Running == {i \in DOMAIN tasks : tasks[i].st = "running"}

\* a worker takes the oldest queued future and runs process_prefix up to the
\* loop of delete_prefix: the listing, and the return when there is nothing
\* to delete or the run is a dry run
TaskList(i) ==
    /\ e_pc \in {"collect", "unwind"}
    /\ tasks[i].st = "queued"
    /\ \A j \in 1..(i - 1) : tasks[j].st # "queued"
    /\ Cardinality(Running) < e_workers
    /\ LET n == Len(list_all_objects(bucket, tasks[i].prefix, -1))
       IN  \E stop \in {-1} \cup ListFailurePoints(n) :
               LET object_keys == list_all_objects(bucket, tasks[i].prefix, stop)
                   first == delete_prefix_listed(object_keys, e_dry_run)
               IN  tasks' = [tasks EXCEPT ![i] =
                       [@ EXCEPT !.st = IF first.returned THEN "done" ELSE "running",
                                 !.object_keys = object_keys,
                                 !.ret = first.ret,
                                 !.list_failed = (stop >= 0)]]
    /\ UNCHANGED <<storeVars, discoverVars, rerunVars, resolverVars, enumVars, sizeVars>>
    /\ UNCHANGED <<e_pc, e_exit, e_crashed, e_file, e_dry_run, e_workers,
                   e_discovered, e_allow, dirty_paths, e_answer, e_reprompts, e_stdin,
                   e_read,
                   e_client, bucket, results, completed, e_report>>

\* one iteration of the loop of delete_prefix: one delete_objects_batch call,
\* and the return after the last
TaskDeleteBatch(i) ==
    /\ e_pc \in {"collect", "unwind"}
    /\ tasks[i].st = "running"
    /\ ~tasks[i].in_flight
    /\ \E outcome \in DeleteOutcomes :
           LET t == tasks[i]
               batch == delete_prefix_batch(t.object_keys, t.k + 1)
               sent == batch # <<>> /\ Len(batch) <= max_keys_per_call
               r == delete_objects_batch(batch, outcome)
               deleted_count == t.deleted_count + r.deleted
               all_errors == t.all_errors \o r.errors
               last == t.k + 1 = delete_prefix_iterations(t.object_keys)
           IN  /\ tasks' = [tasks EXCEPT ![i] =
                       [@ EXCEPT
                           !.st = IF r.raised # "none" \/ last THEN "done" ELSE "running",
                           !.k = t.k + 1,
                           !.deleted_count = IF r.raised = "none" THEN deleted_count ELSE @,
                           !.all_errors = IF r.raised = "none" THEN all_errors ELSE @,
                           !.raised = r.raised,
                           !.ret = IF r.raised = "none" /\ last
                                   THEN <<Len(t.object_keys), deleted_count, all_errors>>
                                   ELSE <<>>,
                           !.batches = IF sent THEN Append(@, batch) ELSE @,
                           !.outcomes = IF sent THEN Append(@, outcome) ELSE @]]
               /\ bucket' = IF sent
                            THEN bucket_without(bucket, s3_deleted_keys(batch, outcome))
                            ELSE bucket
    /\ UNCHANGED <<storeVars, discoverVars, rerunVars, resolverVars, enumVars, sizeVars>>
    /\ UNCHANGED <<e_pc, e_exit, e_crashed, e_file, e_dry_run, e_workers,
                   e_discovered, e_allow, dirty_paths, e_answer, e_reprompts, e_stdin,
                   e_read,
                   e_client, results, completed, e_report>>

\* the loop of delete_prefix in two steps: the task enters
\* delete_objects_batch for its next batch ...
TaskDeleteCall(i) ==
    /\ e_pc \in {"collect", "unwind"}
    /\ tasks[i].st = "running"
    /\ ~tasks[i].in_flight
    /\ tasks' = [tasks EXCEPT ![i].in_flight = TRUE]
    /\ UNCHANGED <<storeVars, discoverVars, rerunVars, resolverVars, enumVars, sizeVars>>
    /\ UNCHANGED <<e_pc, e_exit, e_crashed, e_file, e_dry_run, e_workers,
                   e_discovered, e_allow, dirty_paths, e_answer, e_reprompts, e_stdin,
                   e_read,
                   e_client, bucket, results, completed, e_report>>

\* ... and the call returns: the counts are added, and delete_prefix returns
\* after the last batch
TaskDeleteReturn(i) ==
    /\ e_pc \in {"collect", "unwind"}
    /\ tasks[i].st = "running"
    /\ tasks[i].in_flight
    /\ \E outcome \in DeleteOutcomes :
           LET t == tasks[i]
               batch == delete_prefix_batch(t.object_keys, t.k + 1)
               sent == batch # <<>> /\ Len(batch) <= max_keys_per_call
               r == delete_objects_batch(batch, outcome)
               deleted_count == t.deleted_count + r.deleted
               all_errors == t.all_errors \o r.errors
               last == t.k + 1 = delete_prefix_iterations(t.object_keys)
           IN  /\ tasks' = [tasks EXCEPT ![i] =
                       [@ EXCEPT
                           !.st = IF r.raised # "none" \/ last THEN "done" ELSE "running",
                           !.k = t.k + 1,
                           !.in_flight = FALSE,
                           !.deleted_count = IF r.raised = "none" THEN deleted_count ELSE @,
                           !.all_errors = IF r.raised = "none" THEN all_errors ELSE @,
                           !.raised = r.raised,
                           !.ret = IF r.raised = "none" /\ last
                                   THEN <<Len(t.object_keys), deleted_count, all_errors>>
                                   ELSE <<>>,
                           !.batches = IF sent THEN Append(@, batch) ELSE @,
                           !.outcomes = IF sent THEN Append(@, outcome) ELSE @]]
               /\ bucket' = IF sent
                            THEN bucket_without(bucket, s3_deleted_keys(batch, outcome))
                            ELSE bucket
    /\ UNCHANGED <<storeVars, discoverVars, rerunVars, resolverVars, enumVars, sizeVars>>
    /\ UNCHANGED <<e_pc, e_exit, e_crashed, e_file, e_dry_run, e_workers,
                   e_discovered, e_allow, dirty_paths, e_answer, e_reprompts, e_stdin,
                   e_read,
                   e_client, results, completed, e_report>>

\* the loop over as_completed(futures): future.result() of a finished future;
\* its exception, if it raised, leaves the loop and the `with` block
Collect(i) ==
    /\ e_pc = "collect"
    /\ tasks[i].st = "done"
    /\ ~tasks[i].collected
    /\ tasks' = [tasks EXCEPT ![i].collected = TRUE]
    /\ IF tasks[i].raised # "none"
       THEN /\ e_pc' = "unwind"
            /\ UNCHANGED <<results, completed>>
       ELSE /\ results' = [p \in DOMAIN results \cup {tasks[i].prefix} |->
                               IF p = tasks[i].prefix THEN tasks[i].ret ELSE results[p]]
            /\ completed' = completed + 1
            /\ UNCHANGED e_pc
    /\ UNCHANGED <<storeVars, discoverVars, rerunVars, resolverVars, enumVars, sizeVars>>
    /\ UNCHANGED <<e_exit, e_crashed, e_file, e_dry_run, e_workers, e_discovered,
                   e_allow, dirty_paths, e_answer, e_reprompts, e_stdin,
                   e_read, e_client, bucket,
                   e_report>>

\* the pool of the deletion phase left without waiting for its futures
PoolExit_without_waiting ==
    /\ e_pc = "collect"
    /\ e_pc' = "report"
    /\ UNCHANGED <<storeVars, discoverVars, rerunVars, resolverVars, enumVars, sizeVars>>
    /\ UNCHANGED <<e_exit, e_crashed, e_file, e_dry_run, e_workers, e_discovered,
                   e_allow, dirty_paths, e_answer, e_reprompts, e_stdin,
                   e_read, e_client, bucket, tasks,
                   results, completed, e_report>>

\* the end of the `with ThreadPoolExecutor` block: it waits for every future,
\* then delete_prefixes_concurrent returns results, or the exception of a
\* future goes on up through main and ends the process
PoolExit ==
    /\ \/ e_pc = "collect" /\ \A i \in DOMAIN tasks : tasks[i].collected
       \/ e_pc = "unwind"
    /\ \A i \in DOMAIN tasks : tasks[i].st = "done"
    /\ IF e_pc = "unwind"
       THEN /\ e_pc' = "exit" /\ e_exit' = 1 /\ e_crashed' = TRUE
       ELSE /\ e_pc' = "report" /\ UNCHANGED <<e_exit, e_crashed>>
    /\ UNCHANGED <<storeVars, discoverVars, rerunVars, resolverVars, enumVars, sizeVars>>
    /\ UNCHANGED <<e_file, e_dry_run, e_workers, e_discovered, e_allow,
                   dirty_paths, e_answer, e_reprompts, e_stdin,
                   e_read, e_client, bucket, tasks,
                   results, completed, e_report>>

\* main, "Process results": whether a prefix goes to failed_prefixes
is_failed_prefix(total_objs, deleted, errors, dry_run) ==
    errors # <<>> \/ (~dry_run /\ deleted < total_objs)

\* a plausible slip: the final `sys.exit(1)` is missing
final_exit_status_always_zero(failed_prefixes, dry_run) == 0

\* main, "Exit with error code if there were failures"
final_exit_status(failed_prefixes, dry_run) ==
    IF failed_prefixes # {} /\ ~dry_run THEN 1 ELSE 0

\* main, "Process results" and "Print summary" (failed_prefixes is kept as
\* the set of its prefixes: its order only orders the printed report)
Report ==
    /\ e_pc = "report"
    /\ LET total == [p \in DOMAIN results |-> results[p][1]]
           deleted == [p \in DOMAIN results |-> results[p][2]]
           nerrors == [p \in DOMAIN results |-> Len(results[p][3])]
           failed_prefixes ==
               {p \in DOMAIN results :
                   is_failed_prefix(results[p][1], results[p][2], results[p][3],
                                    e_dry_run)}
       IN  e_report' = [total_objects_found |-> SumOver(DOMAIN results, total),
                        total_objects_deleted |-> SumOver(DOMAIN results, deleted),
                        total_errors |-> SumOver(DOMAIN results, nerrors),
                        failed_prefixes |-> failed_prefixes,
                        log_data |-> <<>>]
    /\ e_pc' = "log"
    /\ UNCHANGED <<storeVars, discoverVars, rerunVars, resolverVars, enumVars, sizeVars>>
    /\ UNCHANGED <<e_exit, e_crashed, e_file, e_dry_run, e_workers, e_discovered,
                   e_allow, dirty_paths, e_answer, e_reprompts, e_stdin,
                   e_read, e_client, bucket, tasks,
                   results, completed>>

\* log_data of main, "Save log if requested"
log_data(paths, dry_run, report, res) ==
    [dry_run |-> dry_run,
     total_prefixes |-> Len(paths),
     total_objects_found |-> report.total_objects_found,
     total_objects_deleted |-> report.total_objects_deleted,
     total_errors |-> report.total_errors,
     results |-> [p \in DOMAIN res |->
                     [total_objects |-> res[p][1], deleted |-> res[p][2],
                      errors |-> res[p][3]]]]

\* main, "Save log if requested": with --output-log the log is written
SaveLog ==
    /\ e_pc = "log"
    /\ \E output_log \in BOOLEAN :
           e_report' = IF output_log
                       THEN [e_report EXCEPT
                                !.log_data = log_data(dirty_paths, e_dry_run,
                                                      e_report, results)]
                       ELSE e_report
    /\ e_pc' = "finish"
    /\ UNCHANGED <<storeVars, discoverVars, rerunVars, resolverVars, enumVars, sizeVars>>
    /\ UNCHANGED <<e_exit, e_crashed, e_file, e_dry_run, e_workers, e_discovered,
                   e_allow, dirty_paths, e_answer, e_reprompts, e_stdin,
                   e_read, e_client, bucket, tasks,
                   results, completed>>

\* main, "Exit with error code if there were failures"
Finish ==
    /\ e_pc = "finish"
    /\ e_exit' = final_exit_status(e_report.failed_prefixes, e_dry_run)
    /\ e_pc' = "exit"
    /\ UNCHANGED <<storeVars, discoverVars, rerunVars, resolverVars, enumVars, sizeVars>>
    /\ UNCHANGED <<e_crashed, e_file, e_dry_run, e_workers, e_discovered, e_allow,
                   dirty_paths, e_answer, e_reprompts, e_stdin,
                   e_read, e_client, bucket, tasks,
                   results, completed, e_report>>

EngineNext ==
    \/ LoadInput
    \/ DisplaySummary
    \/ Confirm
    \/ CreateClient
    \/ SubmitAll
    \/ \E i \in DOMAIN tasks : TaskList(i)
    \/ \E i \in DOMAIN tasks : TaskDeleteBatch(i)
    \/ \E i \in DOMAIN tasks : Collect(i)
    \/ PoolExit
    \/ Report
    \/ SaveLog
    \/ Finish

\* the engine is started a second time with the same arguments, the same
\* input file and the same answers, on the bucket as the first run left it
Rerun ==
    /\ e_pc = "exit"
    /\ e_run = 1
    /\ ~e_dry_run
    /\ e_report # <<>>
    /\ e_run' = 2
    /\ e_first' = [tasks |-> tasks, exit |-> e_exit]
    /\ e_pc' = "load"
    /\ e_exit' = -1
    /\ e_crashed' = FALSE
    /\ dirty_paths' = <<>>
    /\ e_answer' = "none"
    /\ e_reprompts' = 0
    /\ e_read' = 0
    /\ e_client' = FALSE
    /\ tasks' = <<>>
    /\ results' = <<>>
    /\ completed' = 0
    /\ e_report' = <<>>
    /\ UNCHANGED <<storeVars, discoverVars, resolverVars, enumVars, sizeVars>>
    /\ UNCHANGED <<e_file, e_dry_run, e_workers, e_discovered, e_allow, e_stdin,
                   bucket>>

RerunNext ==
    \/ LoadInput
    \/ DisplaySummary
    \/ Confirm
    \/ CreateClient
    \/ SubmitAll
    \/ \E i \in DOMAIN tasks : TaskList(i)
    \/ \E i \in DOMAIN tasks : TaskDeleteBatch(i)
    \/ \E i \in DOMAIN tasks : Collect(i)
    \/ PoolExit
    \/ Report
    \/ SaveLog
    \/ Finish
    \/ Rerun

\* the first run of the engine
FirstRun ==
    /\ e_run = 1
    /\ e_first = <<>>

\* the deletion engine with the start and the return of a delete call as
\* separate steps
EngineCallsNext ==
    \/ LoadInput
    \/ DisplaySummary
    \/ Confirm
    \/ CreateClient
    \/ SubmitAll
    \/ \E i \in DOMAIN tasks : TaskList(i)
    \/ \E i \in DOMAIN tasks : TaskDeleteCall(i)
    \/ \E i \in DOMAIN tasks : TaskDeleteReturn(i)
    \/ \E i \in DOMAIN tasks : Collect(i)
    \/ PoolExit
    \/ Report
    \/ SaveLog
    \/ Finish

\* the state of main before it loads the input
EngineStart ==
    /\ e_pc = "load"
    /\ e_exit = -1
    /\ e_crashed = FALSE
    /\ dirty_paths = <<>>
    /\ e_answer = "none"
    /\ e_reprompts = 0
    /\ e_read = 0
    /\ e_client = FALSE
    /\ tasks = <<>>
    /\ results = <<>>
    /\ completed = 0
    /\ e_report = <<>>

\* the discovered paths, the allow-listed identifiers and the object keys of
\* the small scenarios: a path, a sibling whose name extends it, and objects
\* under both
EnginePaths == { <<"a", "/", "b">>, <<"a", "/", "b", "x">> }

EngineIds == { <<"b">>, <<"b", "x">> }

EngineKeys ==
    { <<"a", "/", "b", "/", "1">>, <<"a", "/", "b", "/", "2">>,
      <<"a", "/", "b", "x", "/", "1">> }

\* the dirty-set file the resolver writes for discovered paths and an
\* allow-list
ResolvedFile(discovered, allow) ==
    [kind |-> "ok",
     dirty_paths |-> sorted(find_dirty_data_prefixes(discovered, allow))]

\* a run on the output of the resolver for some discovered paths and
\* allow-list, or on an unusable input file, against some bucket
EngineInit ==
    /\ EngineStart
    /\ e_discovered \in {SortedSeqOf(S) : S \in SUBSET EnginePaths}
    /\ e_allow \in SUBSET EngineIds
    /\ \E kind \in FileKinds :
           e_file = [ResolvedFile(e_discovered, e_allow) EXCEPT !.kind = kind]
    /\ bucket \in {SortedSeqOf(S) : S \in SUBSET EngineKeys}
    /\ e_dry_run \in BOOLEAN
    /\ e_workers \in 1..MaxWorkers
    /\ e_stdin \in UserInputs

\* the bulk scenarios: a path holding up to MaxBulkKeys objects, named by
\* their rank in the listing, and a second path holding one
BulkPaths == << <<"a", "/", "b">>, <<"a", "/", "c">> >>

BulkKey(path, k) == path \o <<"/", ToString(k)>>

BulkSizes ==
    {0, 1, batch_size - 1, batch_size, batch_size + 1, MaxBulkKeys}

\* a run on two dirty paths against a bucket holding many objects
EngineInitBulk ==
    /\ EngineStart
    /\ e_discovered = BulkPaths
    /\ e_allow = {}
    /\ e_file = ResolvedFile(e_discovered, e_allow)
    /\ \E n \in BulkSizes :
           bucket = [k \in 1..n |-> BulkKey(BulkPaths[1], k)]
                        \o <<BulkKey(BulkPaths[2], 1)>>
    /\ e_dry_run \in BOOLEAN
    /\ e_workers \in 1..MaxWorkers
    /\ e_stdin \in { << <<"y", "e", "s">> >>, << <<"n", "o">> >> }

\* a run on an input file holding any list of paths, in any order and with
\* repetitions
EngineInitAny ==
    /\ EngineStart
    /\ e_discovered \in SeqsUpTo(EnginePaths, MaxListed)
    /\ e_allow = {}
    /\ e_file = [kind |-> "ok", dirty_paths |-> e_discovered]
    /\ bucket \in {SortedSeqOf(S) : S \in SUBSET EngineKeys}
    /\ e_dry_run \in BOOLEAN
    /\ e_workers \in 1..MaxWorkers
    /\ e_stdin = << <<"y", "e", "s">> >>

\* no deletion engine runs
EngineIdle ==
    /\ e_pc = "idle"
    /\ e_stdin = <<>>
    /\ e_read = 0
    /\ e_exit = -1
    /\ e_crashed = FALSE
    /\ dirty_paths = <<>>
    /\ e_answer = "none"
    /\ e_reprompts = 0
    /\ e_client = FALSE
    /\ tasks = <<>>
    /\ results = <<>>
    /\ completed = 0
    /\ e_report = <<>>
    /\ e_discovered = <<>>
    /\ e_allow = {}
    /\ e_file = [kind |-> "missing", dirty_paths |-> <<>>]
    /\ bucket = <<>>
    /\ e_dry_run = TRUE
    /\ e_workers = 1

-----------------------------------------------------------------------------
(* The enumerators: the listing phase of collect_all_next_level_prefixes     *)
(* and of collect_all_backup_prefixes                                        *)

\* what one list_objects_v2 request can do
ListOutcomes == {"page", "ClientError", "Exception"}

\* what a request can do at a store that puts a continuation token on every
\* page it returns
EndlessOutcomes == {"more", "ClientError", "Exception"}

StoreOutcomes == IF s3_endless THEN EndlessOutcomes ELSE ListOutcomes

\* a store whose listings end
FiniteStore == s3_endless = FALSE

\* the page such a store returns: the page of the listing, and a token also
\* where the listing has ended
s3_page(response, continuation_token, outcome) ==
    IF outcome = "more" /\ response.NextContinuationToken = 0
    THEN [response EXCEPT !.NextContinuationToken = continuation_token + PageSize]
    ELSE response

\* the entry a key gives in a listing with Prefix = prefix, Delimiter = "/":
\* the group up to the first "/" after the prefix, or the key itself
s3_entry(key, prefix) ==
    LET rest == SubSeq(key, Len(prefix) + 1, Len(key))
        cuts == {i \in 1..Len(rest) : rest[i] = "/"}
    IN  IF cuts = {}
        THEN [kind |-> "Contents", name |-> key]
        ELSE [kind |-> "CommonPrefixes",
              name |-> prefix \o SubSeq(rest, 1, CHOOSE i \in cuts : \A j \in cuts : i <= j)]

\* the entries of the first n keys of the store, each group once
RECURSIVE s3_entries(_, _, _)
s3_entries(store, prefix, n) ==
    IF n = 0 THEN <<>>
    ELSE LET before == s3_entries(store, prefix, n - 1)
             entry == s3_entry(store[n], prefix)
         IN  IF ~startswith(store[n], prefix) THEN before
             ELSE IF before # <<>> /\ before[Len(before)] = entry THEN before
             ELSE Append(before, entry)

\* the response to list_objects_v2(Bucket, Prefix, Delimiter="/",
\* ContinuationToken): one page of entries; the token is the number of
\* entries already returned, 0 standing for no token
list_objects_v2(store, prefix, continuation_token) ==
    LET entries == s3_entries(store, prefix, Len(store))
        last == IF continuation_token + PageSize < Len(entries)
                THEN continuation_token + PageSize ELSE Len(entries)
        page == SubSeq(entries, continuation_token + 1, last)
    IN  [CommonPrefixes |->
             SelectSeq([i \in 1..Len(page) |-> page[i]],
                       LAMBDA e : e.kind = "CommonPrefixes"),
         NextContinuationToken |-> IF last < Len(entries) THEN last ELSE 0]

\* list_next_level_prefixes, the body of one iteration: the names of the
\* groups of a page, without the parent prefix and the trailing slash
relative_prefix(full_prefix, prefix) ==
    LET relative == SubSeq(full_prefix, Len(prefix) + 1, Len(full_prefix))
    IN  IF endswith(relative, <<"/">>)
        THEN SubSeq(relative, 1, Len(relative) - 1)
        ELSE relative

list_next_level_prefixes_page(next_level_prefixes, response, prefix) ==
    next_level_prefixes \cup
        {rp \in {relative_prefix(response.CommonPrefixes[i].name, prefix) :
                    i \in 1..Len(response.CommonPrefixes)} : rp # <<>>}

\* list_next_level_prefixes giving up after its first page
list_next_level_prefixes_ends_after_first(response) == TRUE

\* list_next_level_prefixes going on after a page without a token
list_next_level_prefixes_ends_never(response) == FALSE

\* list_next_level_prefixes, the end of one iteration: the loop is left when
\* the response carries no continuation token
list_next_level_prefixes_ends(response) == response.NextContinuationToken = 0

\* list_next_level_prefixes when the request raises: the handlers print and
\* break, and the function returns what it has collected
list_next_level_prefixes_on_error(next_level_prefixes) == next_level_prefixes

\* list_prefixes_for_ch_s3_prefix / list_uuids_under_backup_prefix
full_prefix_of(ch_s3_prefix) == ch_s3_prefix \o <<"/">>

\* process_prefix keeping the first candidate's name
process_prefix_first_name(ch_s3_prefix, prefixes_set, raised) ==
    IF raised THEN << <<"a">>, <<>> >> ELSE << <<"a">>, SortedSeqOf(prefixes_set) >>

\* process_prefix / process_backup_prefix
process_prefix(ch_s3_prefix, prefixes_set, raised) ==
    IF raised
    THEN <<ch_s3_prefix, <<>> >>
    ELSE <<ch_s3_prefix, SortedSeqOf(prefixes_set)>>

QueuedListing(ch_s3_prefix) ==
    [st |-> "queued", collected |-> FALSE, ch_s3_prefix |-> ch_s3_prefix,
     next_level_prefixes |-> {}, continuation_token |-> 0, ret |-> <<>>,
     \* what the store saw of this task: the requests made, and which failed
     requests |-> 0, failed_request |-> 0, tokens_sent |-> <<>>]

\* create_s3_client, the empty maps, one future per candidate
EnumSubmit ==
    /\ l_pc = "submit"
    /\ l_tasks' = [i \in 1..Len(ch_s3_prefixes) |-> QueuedListing(ch_s3_prefixes[i])]
    /\ uuid_to_prefixes' = <<>>
    /\ all_next_level_prefixes' = {}
    /\ completed_count' = 0
    /\ l_pc' = "collect"
    /\ UNCHANGED <<storeVars, discoverVars, rerunVars, resolverVars, engineVars, sizeVars>>
    /\ UNCHANGED <<l_variant, l_workers, l_store, ch_s3_prefixes, l_written>>

ListingNow == {i \in DOMAIN l_tasks : l_tasks[i].st = "running"}

\* one iteration of the loop of list_next_level_prefixes in the task t: one
\* list_objects_v2 request, and the return of process_prefix after the last
\* page or after a request that raised
list_step(t, store, outcome) ==
    LET prefix == full_prefix_of(t.ch_s3_prefix)
        response == s3_page(list_objects_v2(store, prefix, t.continuation_token),
                            t.continuation_token, outcome)
        collected == list_next_level_prefixes_page(t.next_level_prefixes,
                                                   response, prefix)
    IN  IF outcome \in {"page", "more"}
        THEN [t EXCEPT
                 !.requests = @ + 1,
                 !.tokens_sent = Append(@, t.continuation_token),
                 !.next_level_prefixes = collected,
                 !.continuation_token = response.NextContinuationToken,
                 !.st = IF list_next_level_prefixes_ends(response)
                        THEN "done" ELSE "running",
                 !.ret = IF list_next_level_prefixes_ends(response)
                         THEN process_prefix(t.ch_s3_prefix, collected, FALSE)
                         ELSE <<>>]
        ELSE [t EXCEPT
                 !.requests = @ + 1,
                 !.tokens_sent = Append(@, t.continuation_token),
                 !.failed_request = t.requests + 1,
                 !.st = "done",
                 !.ret = process_prefix(t.ch_s3_prefix,
                             list_next_level_prefixes_on_error(
                                 t.next_level_prefixes), FALSE)]

\* a worker takes the oldest queued future, or goes on with a running one,
\* for one request
ListRequest(i) ==
    /\ l_pc = "collect"
    /\ \/ l_tasks[i].st = "running"
       \/ /\ l_tasks[i].st = "queued"
          /\ \A j \in 1..(i - 1) : l_tasks[j].st # "queued"
          /\ Cardinality(ListingNow) < l_workers
    /\ l_tasks[i].requests < MaxRequests
    /\ \E outcome \in StoreOutcomes :
           l_tasks' = [l_tasks EXCEPT ![i] = list_step(l_tasks[i], l_store, outcome)]
    /\ UNCHANGED <<storeVars, discoverVars, rerunVars, resolverVars, engineVars, sizeVars>>
    /\ UNCHANGED <<l_pc, l_variant, l_workers, l_store, ch_s3_prefixes,
                   uuid_to_prefixes, all_next_level_prefixes, completed_count,
                   l_written>>

\* the loop over as_completed(futures): the result of a finished future is
\* stored under the name the task returned
EnumCollect(i) ==
    /\ l_pc = "collect"
    /\ l_tasks[i].st = "done"
    /\ ~l_tasks[i].collected
    /\ LET ch_s3_prefix == l_tasks[i].ret[1]
           prefixes == l_tasks[i].ret[2]
       IN  /\ uuid_to_prefixes' =
                  [c \in DOMAIN uuid_to_prefixes \cup {ch_s3_prefix} |->
                      IF c = ch_s3_prefix THEN prefixes ELSE uuid_to_prefixes[c]]
           /\ all_next_level_prefixes' = all_next_level_prefixes \cup Range(prefixes)
           /\ l_written' = Append(l_written, ch_s3_prefix)
    /\ completed_count' = completed_count + 1
    /\ l_tasks' = [l_tasks EXCEPT ![i].collected = TRUE]
    /\ UNCHANGED <<storeVars, discoverVars, rerunVars, resolverVars, engineVars, sizeVars>>
    /\ UNCHANGED <<l_pc, l_variant, l_workers, l_store, ch_s3_prefixes>>

\* the listing pool left without waiting for its futures
EnumPoolExit_without_waiting ==
    /\ l_pc = "collect"
    /\ l_pc' = "listed"
    /\ UNCHANGED <<storeVars, discoverVars, rerunVars, resolverVars, engineVars, sizeVars>>
    /\ UNCHANGED <<l_variant, l_workers, l_store, ch_s3_prefixes, l_tasks,
                   uuid_to_prefixes, all_next_level_prefixes, completed_count,
                   l_written>>

\* the end of the `with ThreadPoolExecutor` block of the listing phase
EnumPoolExit ==
    /\ l_pc = "collect"
    /\ \A i \in DOMAIN l_tasks : l_tasks[i].st = "done" /\ l_tasks[i].collected
    /\ l_pc' = "listed"
    /\ UNCHANGED <<storeVars, discoverVars, rerunVars, resolverVars, engineVars, sizeVars>>
    /\ UNCHANGED <<l_variant, l_workers, l_store, ch_s3_prefixes, l_tasks,
                   uuid_to_prefixes, all_next_level_prefixes, completed_count,
                   l_written>>

EnumNext ==
    \/ EnumSubmit
    \/ \E i \in DOMAIN l_tasks : ListRequest(i)
    \/ \E i \in DOMAIN l_tasks : EnumCollect(i)
    \/ EnumPoolExit

\* the names the data enumerator always scans; three names stand for
\* ch-s3-000 .. ch-s3-fff
EnumRange == << <<"a">>, <<"b">>, <<"c">> >>

\* the keys every bucket of the model holds, and those it may hold
EnumKeys ==
    { <<"a", "/", "1">>, <<"a", "/", "x", "/", "1">>, <<"a", "/", "y", "/", "1">>,
      <<"a", "/", "y", "/", "2">>, <<"b", "/", "x", "/", "1">> }

EnumOptionalKeys ==
    { <<"a", "/", "/", "1">>, <<"a", "/", "s", "/", "1">> }

\* a run of an enumerator: the data enumerator scans its whole range, the
\* backup enumerator the names its discovery returned, sorted and not empty
EnumInit ==
    /\ l_pc = "submit"
    /\ l_variant \in {"data", "backup"}
    /\ l_workers \in 1..MaxWorkers
    /\ \E more \in SUBSET EnumOptionalKeys : l_store = SortedSeqOf(EnumKeys \cup more)
    /\ \E found \in SUBSET Range(EnumRange) :
           /\ l_variant = "data" => found = Range(EnumRange)
           /\ l_variant = "backup" => found # {}
           /\ ch_s3_prefixes = SortedSeqOf(found)
    /\ l_tasks = <<>>
    /\ uuid_to_prefixes = <<>>
    /\ all_next_level_prefixes = {}
    /\ completed_count = 0
    /\ l_written = <<>>
    /\ sorted_full_paths = <<>>
    /\ s_tasks = <<>>
    /\ prefix_to_size = <<>>
    /\ l_output = <<>>

EnumIdle ==
    /\ l_pc = "idle"
    /\ l_variant = "data"
    /\ l_workers = 1
    /\ l_store = <<>>
    /\ ch_s3_prefixes = <<>>
    /\ l_tasks = <<>>
    /\ uuid_to_prefixes = <<>>
    /\ all_next_level_prefixes = {}
    /\ completed_count = 0
    /\ l_written = <<>>
    /\ sorted_full_paths = <<>>
    /\ s_tasks = <<>>
    /\ prefix_to_size = <<>>
    /\ l_output = <<>>

-----------------------------------------------------------------------------
(* The enumerators: the sizing phase and the artifact                        *)

\* the Size the store reports for a key
ObjectSize(key) ==
    CASE key = <<"a", "/", "1">> -> 1
      [] key = <<"a", "/", "x", "/", "1">> -> 2
      [] key = <<"a", "/", "y", "/", "1">> -> 4
      [] key = <<"a", "/", "y", "/", "2">> -> 8
      [] key = <<"a", "/", "y", "/", "a">> -> 16
      [] key = <<"b", "/", "x", "/", "1">> -> 32
      [] key = <<"a", "/", "s", "/", "1">> -> 0
      [] OTHER -> 64

\* the response to list_objects_v2(Bucket, Prefix, ContinuationToken) without
\* a delimiter: one page of the objects whose key starts with the prefix
list_objects_v2_flat(store, prefix, continuation_token) ==
    LET keys == SelectSeq(store, LAMBDA k : startswith(k, prefix))
        last == IF continuation_token + PageSize < Len(keys)
                THEN continuation_token + PageSize ELSE Len(keys)
    IN  [Contents |-> [i \in 1..(last - continuation_token) |->
                          [Key |-> keys[continuation_token + i],
                           Size |-> ObjectSize(keys[continuation_token + i])]],
         NextContinuationToken |-> IF last < Len(keys) THEN last ELSE 0]

\* sum_sizes_in_prefix counting only the first object of a page
sum_sizes_in_prefix_page_first_only(total_size, response) ==
    IF response.Contents = <<>> THEN total_size
    ELSE total_size + response.Contents[1].Size

\* sum_sizes_in_prefix, the body of one iteration: the sizes of a page added
sum_sizes_in_prefix_page(total_size, response) ==
    total_size + SumOver(DOMAIN response.Contents,
                         [i \in DOMAIN response.Contents |-> response.Contents[i].Size])

\* sum_sizes_in_prefix when the request raises: the handlers print and break,
\* and the function returns the sum so far
sum_sizes_in_prefix_on_error(total_size) == total_size

\* size_for_prefix
size_for_prefix(full_path, total_size, raised) ==
    IF raised THEN <<full_path, 0>> ELSE <<full_path, total_size>>

\* the loop over uuid_to_prefixes.items(): f"{ch_s3_prefix}/{prefix}" for the
\* keys of the map in insertion order
RECURSIVE all_full_paths(_, _)
all_full_paths(inserted, map) ==
    IF inserted = <<>> THEN <<>>
    ELSE LET before == SubSeq(inserted, 1, Len(inserted) - 1)
             c == inserted[Len(inserted)]
         IN  IF c \in Range(before) THEN all_full_paths(before, map)
             ELSE all_full_paths(before, map) \o
                      [j \in 1..Len(map[c]) |-> c \o <<"/">> \o map[c][j]]

\* sorted(all_full_paths) handed over unsorted
sorted_paths_unsorted(inserted, map) == all_full_paths(inserted, map)

\* sorted_full_paths = sorted(all_full_paths)
sorted_paths(inserted, map) == sorted(all_full_paths(inserted, map))

QueuedSizing(full_path) ==
    [st |-> "queued", collected |-> FALSE, full_path |-> full_path,
     total_size |-> 0, continuation_token |-> 0, ret |-> <<>>,
     requests |-> 0, failed_request |-> 0]

\* the full paths are built and sorted, and one sizing future per path is
\* submitted to a new pool
BuildPaths ==
    /\ l_pc = "listed"
    /\ sorted_full_paths' = sorted_paths(l_written, uuid_to_prefixes)
    /\ s_tasks' = [i \in 1..Len(sorted_paths(l_written, uuid_to_prefixes)) |->
                      QueuedSizing(sorted_paths(l_written, uuid_to_prefixes)[i])]
    /\ prefix_to_size' = <<>>
    /\ completed_count' = 0
    /\ l_pc' = "size_collect"
    /\ UNCHANGED <<storeVars, discoverVars, rerunVars, resolverVars, engineVars>>
    /\ UNCHANGED <<l_variant, l_workers, l_store, ch_s3_prefixes, l_tasks,
                   uuid_to_prefixes, all_next_level_prefixes, l_written, l_output>>

\* one iteration of the loop of sum_sizes_in_prefix in the task t, and the
\* return of size_for_prefix after the last page or a request that raised
size_step(t, store, outcome) ==
    LET response == s3_page(list_objects_v2_flat(store, t.full_path \o <<"/">>,
                                                 t.continuation_token),
                            t.continuation_token, outcome)
        total_size == sum_sizes_in_prefix_page(t.total_size, response)
    IN  IF outcome \in {"page", "more"}
        THEN [t EXCEPT
                 !.requests = @ + 1,
                 !.total_size = total_size,
                 !.continuation_token = response.NextContinuationToken,
                 !.st = IF response.NextContinuationToken = 0
                        THEN "done" ELSE "running",
                 !.ret = IF response.NextContinuationToken = 0
                         THEN size_for_prefix(t.full_path, total_size, FALSE)
                         ELSE <<>>]
        ELSE [t EXCEPT
                 !.requests = @ + 1,
                 !.failed_request = t.requests + 1,
                 !.st = "done",
                 !.ret = size_for_prefix(t.full_path,
                             sum_sizes_in_prefix_on_error(t.total_size), FALSE)]

SizingNow == {i \in DOMAIN s_tasks : s_tasks[i].st = "running"}

SizeRequest(i) ==
    /\ l_pc = "size_collect"
    /\ \/ s_tasks[i].st = "running"
       \/ /\ s_tasks[i].st = "queued"
          /\ \A j \in 1..(i - 1) : s_tasks[j].st # "queued"
          /\ Cardinality(SizingNow) < l_workers
    /\ s_tasks[i].requests < MaxRequests
    /\ \E outcome \in StoreOutcomes :
           s_tasks' = [s_tasks EXCEPT ![i] = size_step(s_tasks[i], l_store, outcome)]
    /\ UNCHANGED <<storeVars, discoverVars, rerunVars, resolverVars, engineVars, enumVars>>
    /\ UNCHANGED <<sorted_full_paths, prefix_to_size, l_output>>

\* the loop over as_completed(size_futures)
SizeCollect(i) ==
    /\ l_pc = "size_collect"
    /\ s_tasks[i].st = "done"
    /\ ~s_tasks[i].collected
    /\ LET full_path == s_tasks[i].ret[1]
           total_size == s_tasks[i].ret[2]
       IN  prefix_to_size' =
               [q \in DOMAIN prefix_to_size \cup {full_path} |->
                   IF q = full_path THEN total_size ELSE prefix_to_size[q]]
    /\ completed_count' = completed_count + 1
    /\ s_tasks' = [s_tasks EXCEPT ![i].collected = TRUE]
    /\ UNCHANGED <<storeVars, discoverVars, rerunVars, resolverVars, engineVars>>
    /\ UNCHANGED <<l_pc, l_variant, l_workers, l_store, ch_s3_prefixes, l_tasks,
                   uuid_to_prefixes, all_next_level_prefixes, l_written,
                   sorted_full_paths, l_output>>

\* the end of the `with` block of the sizing phase, and json.dump of
\* output_data
WriteArtifact ==
    /\ l_pc = "size_collect"
    /\ \A i \in DOMAIN s_tasks : s_tasks[i].st = "done" /\ s_tasks[i].collected
    /\ l_output' = [prefixes |-> sorted_full_paths,
                    prefix_sizes_bytes |-> prefix_to_size,
                    total_full_paths |-> Len(sorted_full_paths),
                    total_size_bytes |->
                        SumOver(DOMAIN prefix_to_size, prefix_to_size)]
    /\ l_pc' = "written"
    /\ UNCHANGED <<storeVars, discoverVars, rerunVars, resolverVars, engineVars>>
    /\ UNCHANGED <<l_variant, l_workers, l_store, ch_s3_prefixes, l_tasks,
                   uuid_to_prefixes, all_next_level_prefixes, completed_count,
                   l_written, sorted_full_paths, s_tasks, prefix_to_size>>

\* list_next_level_prefixes run to its return in the task t, the request
\* number fail_at raising (none when fail_at = 0)
RECURSIVE listing_run(_, _, _)
listing_run(t, store, fail_at) ==
    IF t.st = "done" THEN t
    ELSE listing_run(list_step(t, store,
                               IF t.requests + 1 = fail_at THEN "ClientError"
                               ELSE "page"),
                     store, fail_at)

\* keys a bucket of a sizing run may hold besides EnumKeys: a third object
\* under a/y, and an object of size 0
SizeOptionalKeys ==
    { <<"a", "/", "y", "/", "a">>, <<"a", "/", "s", "/", "1">> }

\* an enumerator whose listing phase has just ended, whatever requests of
\* it failed and in whatever order its results were merged
SizeInit ==
    /\ l_pc = "listed"
    /\ l_variant \in {"data", "backup"}
    /\ l_workers \in 1..MaxWorkers
    /\ \E more \in SUBSET SizeOptionalKeys : l_store = SortedSeqOf(EnumKeys \cup more)
    /\ \E found \in SUBSET Range(EnumRange) :
           /\ l_variant = "data" => found = Range(EnumRange)
           /\ l_variant = "backup" => found # {}
           /\ ch_s3_prefixes = SortedSeqOf(found)
    /\ \E fail_at \in [Range(EnumRange) -> 0..2] :
           l_tasks = [i \in 1..Len(ch_s3_prefixes) |->
                         [listing_run(QueuedListing(ch_s3_prefixes[i]), l_store,
                                      fail_at[ch_s3_prefixes[i]])
                             EXCEPT !.collected = TRUE]]
    /\ uuid_to_prefixes = [c \in Range(ch_s3_prefixes) |->
           l_tasks[CHOOSE i \in DOMAIN l_tasks : ch_s3_prefixes[i] = c].ret[2]]
    /\ all_next_level_prefixes =
           UNION {Range(l_tasks[i].ret[2]) : i \in DOMAIN l_tasks}
    /\ completed_count = Len(ch_s3_prefixes)
    /\ l_written \in {order \in [1..Len(ch_s3_prefixes) -> Range(ch_s3_prefixes)] :
                         Range(order) = Range(ch_s3_prefixes)}
    /\ sorted_full_paths = <<>>
    /\ s_tasks = <<>>
    /\ prefix_to_size = <<>>
    /\ l_output = <<>>

SizeNext ==
    \/ BuildPaths
    \/ \E i \in DOMAIN s_tasks : SizeRequest(i)
    \/ \E i \in DOMAIN s_tasks : SizeCollect(i)
    \/ WriteArtifact

-----------------------------------------------------------------------------
(* The backup enumerator: discover_ch_s3_prefixes                            *)

HexDigits ==
    {"0", "1", "2", "3", "4", "5", "6", "7", "8", "9",
     "a", "b", "c", "d", "e", "f", "A", "B", "C", "D", "E", "F"}

\* is_valid_uuid: re.match of ^[0-9a-f]{8}-[0-9a-f]{4}-[0-9a-f]{4}-
\* [0-9a-f]{4}-[0-9a-f]{12}$ with re.IGNORECASE; `$` matches at the end of
\* the string and also just before a newline that ends it
is_valid_uuid(uuid_str) ==
    LET matched == IF uuid_str # <<>> /\ uuid_str[Len(uuid_str)] = "\n"
                   THEN SubSeq(uuid_str, 1, Len(uuid_str) - 1)
                   ELSE uuid_str
    IN  /\ Len(matched) = 36
        /\ \A i \in 1..36 :
               IF i \in {9, 14, 19, 24} THEN matched[i] = "-"
               ELSE matched[i] \in HexDigits

\* discover_ch_s3_prefixes, the body of the loop over CommonPrefixes: the
\* name without its trailing slash, and whether it is appended
discover_candidate(common_prefix) ==
    LET full_prefix == IF endswith(common_prefix, <<"/">>)
                       THEN SubSeq(common_prefix, 1, Len(common_prefix) - 1)
                       ELSE common_prefix
    IN  [full_prefix |-> full_prefix,
         appended |-> /\ startswith(full_prefix, ch_s3)
                      /\ is_valid_uuid(SubSeq(full_prefix, 7, Len(full_prefix)))]

\* discover_ch_s3_prefixes, one page: the candidates that pass, appended
discover_ch_s3_prefixes_page(found, response) ==
    LET candidates == [i \in 1..Len(response.CommonPrefixes) |->
                          discover_candidate(response.CommonPrefixes[i].name)]
        kept == SelectSeq(candidates, LAMBDA cand : cand.appended)
    IN  found \o [i \in 1..Len(kept) |-> kept[i].full_prefix]

\* one iteration of the loop of discover_ch_s3_prefixes: a request with
\* Prefix 'ch-s3-' and Delimiter '/'; the loop is left at a page without a
\* token or when the request raises, and sorted(ch_s3_prefixes) is returned
DiscoverRequest ==
    /\ d_pc = "discover"
    /\ d_requests < MaxRequests
    /\ d_requests' = d_requests + 1
    /\ \E outcome \in StoreOutcomes :
           LET response == s3_page(list_objects_v2(d_store, ch_s3,
                                                   d_continuation_token),
                                   d_continuation_token, outcome)
               found == discover_ch_s3_prefixes_page(d_ch_s3_prefixes, response)
           IN  IF outcome \in {"page", "more"}
               THEN /\ d_ch_s3_prefixes' = found
                    /\ d_continuation_token' = response.NextContinuationToken
                    /\ UNCHANGED d_failed_request
                    /\ IF response.NextContinuationToken = 0
                       THEN d_pc' = "discovered" /\ d_result' = sorted(found)
                       ELSE UNCHANGED <<d_pc, d_result>>
               ELSE /\ d_failed_request' = d_requests + 1
                    /\ d_pc' = "discovered"
                    /\ d_result' = sorted(d_ch_s3_prefixes)
                    /\ UNCHANGED <<d_ch_s3_prefixes, d_continuation_token>>
    /\ UNCHANGED <<storeVars, rerunVars, resolverVars, engineVars, enumVars, sizeVars, d_store>>

\* collect_all_backup_prefixes after the discovery: `if not ch_s3_prefixes:
\* return []`, the listing phase otherwise
AfterDiscover ==
    /\ d_pc = "discovered"
    /\ d_pc' = IF d_result = <<>> THEN "returned" ELSE "listing"
    /\ UNCHANGED <<storeVars, rerunVars, resolverVars, engineVars, enumVars, sizeVars>>
    /\ UNCHANGED <<d_store, d_ch_s3_prefixes, d_continuation_token, d_requests,
                   d_failed_request, d_result>>

DiscoverNext == DiscoverRequest \/ AfterDiscover

\* n times the character ch
Rep(ch, n) == [i \in 1..n |-> ch]

\* a string of the 8-4-4-4-12 shape whose first group repeats `first`
UuidLike(first) ==
    Rep(first, 8) \o <<"-">> \o Rep("b", 4) \o <<"-">> \o Rep("c", 4) \o <<"-">>
        \o Rep("1", 4) \o <<"-">> \o Rep("2", 12)

\* the top-level names a bucket of the model may hold under 'ch-s3-': two of
\* the UUID shape, in small and in capital letters, and names that are not
\* of it: a letter that is no hex digit, a hyphen out of place, a longer and
\* a shorter string, the empty string, and a line break after the last group
DiscoverNames ==
    { ch_s3 \o UuidLike("a"), ch_s3 \o UuidLike("E"), ch_s3 \o UuidLike("x"),
      ch_s3 \o Rep("a", 9) \o <<"-">> \o Rep("b", 3) \o SubSeq(UuidLike("a"), 14, 36),
      ch_s3 \o UuidLike("a") \o <<"a">>, ch_s3 \o <<"a", "b", "c">>, ch_s3,
      ch_s3 \o UuidLike("a") \o <<"\n">> }

\* keys every bucket of a discovery holds: one outside 'ch-s3-' and an
\* object directly under the bucket
DiscoverKeys == { <<"a", "/", "1">>, ch_s3 \o <<"x">> }

\* a discovery against a bucket holding some of the names
DiscoverInit ==
    /\ d_pc = "discover"
    /\ \E names \in SUBSET DiscoverNames :
           d_store = SortedSeqOf(DiscoverKeys \cup {n \o <<"/", "1">> : n \in names})
    /\ d_ch_s3_prefixes = <<>>
    /\ d_continuation_token = 0
    /\ d_requests = 0
    /\ d_failed_request = 0
    /\ d_result = <<>>

DiscoverIdle ==
    /\ d_pc = "idle"
    /\ d_store = <<>>
    /\ d_ch_s3_prefixes = <<>>
    /\ d_continuation_token = 0
    /\ d_requests = 0
    /\ d_failed_request = 0
    /\ d_result = <<>>

\* collect_all_backup_prefixes going on to the listing phase whatever the
\* discovery returned
DiscoveryReturns_always_listing ==
    /\ d_pc = "discovered"
    /\ l_pc = "wait"
    /\ d_pc' = "listing"
    /\ l_pc' = "submit"
    /\ ch_s3_prefixes' = d_result
    /\ UNCHANGED <<storeVars, rerunVars, resolverVars, engineVars, sizeVars>>
    /\ UNCHANGED <<d_store, d_ch_s3_prefixes, d_continuation_token, d_requests,
                   d_failed_request, d_result>>
    /\ UNCHANGED <<l_variant, l_workers, l_store, l_tasks, uuid_to_prefixes,
                   all_next_level_prefixes, completed_count, l_written>>

\* collect_all_backup_prefixes after discover_ch_s3_prefixes has returned:
\* `if not ch_s3_prefixes: return []`, and otherwise the listing phase over
\* the names the discovery returned
DiscoveryReturns ==
    /\ d_pc = "discovered"
    /\ l_pc = "wait"
    /\ d_pc' = IF d_result = <<>> THEN "returned" ELSE "listing"
    /\ l_pc' = IF d_result = <<>> THEN "wait" ELSE "submit"
    /\ ch_s3_prefixes' = d_result
    /\ UNCHANGED <<storeVars, rerunVars, resolverVars, engineVars, sizeVars>>
    /\ UNCHANGED <<d_store, d_ch_s3_prefixes, d_continuation_token, d_requests,
                   d_failed_request, d_result>>
    /\ UNCHANGED <<l_variant, l_workers, l_store, l_tasks, uuid_to_prefixes,
                   all_next_level_prefixes, completed_count, l_written>>

\* the top-level names a bucket of a whole backup run may hold: two of the
\* UUID shape and one that is not of it
BackupNames ==
    { ch_s3 \o UuidLike("a"), ch_s3 \o UuidLike("E"), ch_s3 \o <<"a", "b", "c">> }

\* the names the store that puts a token on every page is followed with
EndlessNames == { ch_s3 \o UuidLike("E"), ch_s3 \o <<"a", "b", "c">> }

\* the keys the bucket holds under a name: three groups, one of them with
\* three objects, under the first name, and one group under the others
BackupKeysUnder(name) ==
    IF name = ch_s3 \o UuidLike("a")
    THEN { name \o <<"/", "x", "/", "1">>, name \o <<"/", "y", "/", "1">>,
           name \o <<"/", "y", "/", "2">>, name \o <<"/", "y", "/", "3">>,
           name \o <<"/", "s", "/", "1">> }
    ELSE { name \o <<"/", "x", "/", "1">> }

\* a run of the backup enumerator from its discovery on, against a bucket
\* holding some of the names, at a store whose listings end or, with the
\* smaller buckets, at one that puts a token on every page
BackupStart ==
    /\ s3_endless \in BOOLEAN
    /\ d_pc = "discover"
    /\ \E names \in SUBSET BackupNames :
           /\ s3_endless => names \subseteq EndlessNames
           /\ d_store = SortedSeqOf({<<"a", "/", "1">>} \cup
                                    UNION {BackupKeysUnder(n) : n \in names})
    /\ d_ch_s3_prefixes = <<>>
    /\ d_continuation_token = 0
    /\ d_requests = 0
    /\ d_failed_request = 0
    /\ d_result = <<>>
    /\ l_pc = "wait"
    /\ l_variant = "backup"
    /\ l_workers \in 1..MaxWorkers
    /\ l_store = d_store
    /\ ch_s3_prefixes = <<>>
    /\ l_tasks = <<>>
    /\ uuid_to_prefixes = <<>>
    /\ all_next_level_prefixes = {}
    /\ completed_count = 0
    /\ l_written = <<>>
    /\ sorted_full_paths = <<>>
    /\ s_tasks = <<>>
    /\ prefix_to_size = <<>>

\* the same with no file at the output path
BackupInit == BackupStart /\ l_output = <<>>

\* a run of the data enumerator on its whole range, at a store whose
\* listings end
DataStart ==
    /\ s3_endless = FALSE
    /\ DiscoverIdle
    /\ l_pc = "submit"
    /\ l_variant = "data"
    /\ l_workers \in 1..MaxWorkers
    /\ l_store = SortedSeqOf(EnumKeys)
    /\ ch_s3_prefixes = EnumRange
    /\ l_tasks = <<>>
    /\ uuid_to_prefixes = <<>>
    /\ all_next_level_prefixes = {}
    /\ completed_count = 0
    /\ l_written = <<>>
    /\ sorted_full_paths = <<>>
    /\ s_tasks = <<>>
    /\ prefix_to_size = <<>>

\* an artifact of an earlier run, of a bucket that held other objects
OldArtifact ==
    [prefixes |-> << <<"a", "/", "o">> >>,
     prefix_sizes_bytes |-> [q \in { <<"a", "/", "o">> } |-> 7],
     total_full_paths |-> 1,
     total_size_bytes |-> 7]

\* a run of either enumerator, with or without a file at the output path
ArtifactInit ==
    /\ BackupStart \/ DataStart
    /\ l_output \in {<<>>, OldArtifact}

-----------------------------------------------------------------------------
(* Specifications *)

\* a resolver run on any list of paths and any allow-list
InitResolver == ResolverInit /\ EngineIdle /\ EnumIdle /\ DiscoverIdle /\ FirstRun
                 /\ FiniteStore

SpecResolver == InitResolver /\ [][ResolverNext]_vars

\* a resolver run from the allow-list file and the discovered-paths file
InitResolverFiles == ResolverFilesInit /\ EngineIdle /\ EnumIdle /\ DiscoverIdle /\ FirstRun
                 /\ FiniteStore

SpecResolverFiles == InitResolverFiles /\ [][ResolverFilesNext]_vars

\* a deletion engine run on a resolved dirty set
InitDelete == ResolverIdle /\ EngineInit /\ EnumIdle /\ DiscoverIdle /\ FirstRun
                 /\ FiniteStore

SpecDelete == InitDelete /\ [][EngineNext]_vars

\* a deletion engine run against a bucket holding many objects
InitBulk == ResolverIdle /\ EngineInitBulk /\ EnumIdle /\ DiscoverIdle /\ FirstRun
                 /\ FiniteStore

SpecBulk == InitBulk /\ [][EngineNext]_vars

\* the listing phase of an enumerator run
InitEnum == ResolverIdle /\ EngineIdle /\ EnumInit /\ DiscoverIdle /\ FirstRun
                 /\ FiniteStore

SpecEnum == InitEnum /\ [][EnumNext]_vars

\* the sizing phase of an enumerator run, up to the artifact
InitSize == ResolverIdle /\ EngineIdle /\ SizeInit /\ DiscoverIdle /\ FirstRun
                 /\ FiniteStore

SpecSize == InitSize /\ [][SizeNext]_vars

\* an enumerator run from the submission of the listing tasks to the artifact
RunNext ==
    \/ EnumSubmit
    \/ \E i \in DOMAIN l_tasks : ListRequest(i)
    \/ \E i \in DOMAIN l_tasks : EnumCollect(i)
    \/ EnumPoolExit
    \/ BuildPaths
    \/ \E i \in DOMAIN s_tasks : SizeRequest(i)
    \/ \E i \in DOMAIN s_tasks : SizeCollect(i)
    \/ WriteArtifact

InitRun == ResolverIdle /\ EngineIdle /\ EnumInit /\ DiscoverIdle /\ FirstRun
                 /\ FiniteStore

SpecRun == InitRun /\ [][RunNext]_vars

\* a run of the backup enumerator from the discovery to the artifact
BackupNext ==
    \/ DiscoverRequest
    \/ DiscoveryReturns
    \/ EnumSubmit
    \/ \E i \in DOMAIN l_tasks : ListRequest(i)
    \/ \E i \in DOMAIN l_tasks : EnumCollect(i)
    \/ EnumPoolExit
    \/ BuildPaths
    \/ \E i \in DOMAIN s_tasks : SizeRequest(i)
    \/ \E i \in DOMAIN s_tasks : SizeCollect(i)
    \/ WriteArtifact

InitBackup == ResolverIdle /\ EngineIdle /\ BackupInit /\ FirstRun

\* ENABLED <<BackupNext>>_vars as a state predicate: the guards of the
\* actions of BackupNext, each of which changes the state it is taken in
BackupNextEnabled ==
    \/ d_pc = "discover" /\ d_requests < MaxRequests
    \/ d_pc = "discovered" /\ l_pc = "wait"
    \/ l_pc = "submit"
    \/ /\ l_pc = "collect"
       /\ \/ \E i \in DOMAIN l_tasks :
                 /\ l_tasks[i].requests < MaxRequests
                 /\ \/ l_tasks[i].st = "running"
                    \/ /\ l_tasks[i].st = "queued"
                       /\ \A j \in 1..(i - 1) : l_tasks[j].st # "queued"
                       /\ Cardinality(ListingNow) < l_workers
          \/ \E i \in DOMAIN l_tasks : l_tasks[i].st = "done" /\ ~l_tasks[i].collected
          \/ \A i \in DOMAIN l_tasks : l_tasks[i].st = "done" /\ l_tasks[i].collected
    \/ l_pc = "listed"
    \/ /\ l_pc = "size_collect"
       /\ \/ \E i \in DOMAIN s_tasks :
                 /\ s_tasks[i].requests < MaxRequests
                 /\ \/ s_tasks[i].st = "running"
                    \/ /\ s_tasks[i].st = "queued"
                       /\ \A j \in 1..(i - 1) : s_tasks[j].st # "queued"
                       /\ Cardinality(SizingNow) < l_workers
          \/ \E i \in DOMAIN s_tasks : s_tasks[i].st = "done" /\ ~s_tasks[i].collected
          \/ \A i \in DOMAIN s_tasks : s_tasks[i].st = "done" /\ s_tasks[i].collected

\* the main thread and the workers of a pool go on while they can: no step
\* of the run waits for anything but the steps before it.  The fairness
\* condition is WF_vars(BackupNext), written out with its enabling condition
\* as the state predicate above.
SpecBackup ==
    /\ InitBackup
    /\ [][BackupNext]_vars
    /\ ([]<>(~BackupNextEnabled) \/ []<><<BackupNext>>_vars)

\* a run of either enumerator where the output path may hold an older artifact
InitArtifact == ResolverIdle /\ EngineIdle /\ ArtifactInit /\ FirstRun

SpecArtifact ==
    /\ InitArtifact
    /\ [][BackupNext]_vars
    /\ ([]<>(~BackupNextEnabled) \/ []<><<BackupNext>>_vars)

\* a deletion engine run on any list of dirty paths
InitDeleteAny == ResolverIdle /\ EngineInitAny /\ EnumIdle /\ DiscoverIdle /\ FirstRun
                 /\ FiniteStore

SpecDeleteAny == InitDeleteAny /\ [][EngineCallsNext]_vars

\* a live deletion engine run, and the engine run once more after it
InitRerun == ResolverIdle /\ EngineInit /\ EnumIdle /\ DiscoverIdle /\ FirstRun
                 /\ FiniteStore

SpecRerun == InitRerun /\ [][RerunNext]_vars

\* the discovery of the backup enumerator
InitDiscover == ResolverIdle /\ EngineIdle /\ EnumIdle /\ DiscoverInit /\ FirstRun
                 /\ FiniteStore

SpecDiscover == InitDiscover /\ [][DiscoverNext]_vars

-----------------------------------------------------------------------------
(* Claims about the resolvers *)

\* the final '/'-delimited segment: what follows the last '/', the whole
\* path when it holds none
FinalSegment(p) ==
    LET slashes == {i \in 1..Len(p) : p[i] = "/"}
    IN  IF slashes = {} THEN p
        ELSE LET k == CHOOSE i \in slashes : \A j \in slashes : j <= i
             IN  SubSeq(p, k + 1, Len(p))

\* C1: find_dirty_data_prefixes(P, A) and find_dirty_backup_prefixes(P, A)
\* return exactly the paths of P whose final segment is not in A, each as
\* often and in the order it occurs in P; with A empty every path of P.
C1_DirtyIsExactlyNotAllowed ==
    r_pc # "start" =>
        /\ \A p \in Range(r_prefixes) :
               (p \in Range(r_dirty)) <=> (FinalSegment(p) \notin r_allow)
        /\ Range(r_dirty) \subseteq Range(r_prefixes)
        /\ \A p \in Range(r_dirty) :
               Cardinality({i \in 1..Len(r_dirty) : r_dirty[i] = p})
                   = Cardinality({i \in 1..Len(r_prefixes) : r_prefixes[i] = p})
        /\ \A i, j \in 1..Len(r_dirty) :
               i < j =>
                   \E k, l \in 1..Len(r_prefixes) :
                       k < l /\ r_prefixes[k] = r_dirty[i]
                             /\ r_prefixes[l] = r_dirty[j]
        /\ (r_allow = {} => r_dirty = r_prefixes)

\* a resolver has run on a list holding an allow-listed and a dirty path
C1_Witness ==
    /\ r_pc = "found"
    /\ \E p \in Range(r_prefixes) : FinalSegment(p) \in r_allow
    /\ \E p \in Range(r_prefixes) : FinalSegment(p) \notin r_allow
    /\ Len(r_dirty) >= 1
    /\ Len(r_dirty) < Len(r_prefixes)

\* C14: the identifier both resolvers extract from a path is its final
\* '/'-delimited segment, and the whole path when it holds no '/':
\* 'top/leaf' and 'top/mid/leaf' give 'leaf', 'onlyone' gives 'onlyone'.
C14_IdentifierIsFinalSegment ==
    /\ \A p \in Range(r_prefixes) :
           /\ extract_uuid_from_path(p) = FinalSegment(p)
           /\ extract_next_level_uuid_from_path(p) = FinalSegment(p)
    /\ \A f \in {extract_uuid_from_path(<<"t", "o", "p", "/", "l", "e", "a", "f">>),
                 extract_next_level_uuid_from_path(<<"t", "o", "p", "/", "l", "e", "a", "f">>),
                 extract_uuid_from_path(
                     <<"t", "o", "p", "/", "m", "i", "d", "/", "l", "e", "a", "f">>),
                 extract_next_level_uuid_from_path(
                     <<"t", "o", "p", "/", "m", "i", "d", "/", "l", "e", "a", "f">>)} :
           f = <<"l", "e", "a", "f">>
    /\ \A f \in {extract_uuid_from_path(<<"o", "n", "l", "y", "o", "n", "e">>),
                 extract_next_level_uuid_from_path(<<"o", "n", "l", "y", "o", "n", "e">>)} :
           f = <<"o", "n", "l", "y", "o", "n", "e">>

\* a resolver has judged a path with two '/', a path with none and a path
\* ending in '/' by their identifiers
C14_Witness ==
    /\ r_pc = "found"
    /\ r_prefixes = << <<"a", "/", "c", "/", "b">>, <<"b">>, <<"a", "/">> >>
    /\ r_allow = { <<"b">> }
    /\ r_dirty = << <<"a", "/">> >>

\* a line without its leading and trailing blanks
Trimmed(line) ==
    LET inked == {i \in 1..Len(line) : line[i] # " "}
    IN  IF inked = {} THEN <<>>
        ELSE SubSeq(line, CHOOSE i \in inked : \A j \in inked : i <= j,
                          CHOOSE i \in inked : \A j \in inked : j <= i)

\* a trimmed line without one leading 'ch-s3-'
Unprefixed(t) ==
    IF Len(t) >= 6 /\ SubSeq(t, 1, 6) = <<"c", "h", "-", "s", "3", "-">>
    THEN SubSeq(t, 7, Len(t))
    ELSE t

\* C15: load_non_terminated_uuids returns the set of the file's lines,
\* trimmed, the blank ones skipped, one leading 'ch-s3-' removed from each
\* line that starts with it ('ch-s3-abc123' loads as 'abc123'); equal
\* results are one member, and other lines are kept as they are.
C15_AllowListLoading ==
    /\ r_pc \in {"start", "found", "written"} =>
           r_allow = {Unprefixed(Trimmed(r_lines[i])) :
                         i \in {i \in 1..Len(r_lines) : Trimmed(r_lines[i]) # <<>>}}
    /\ \A loaded \in {load_non_terminated_uuids(
                          << <<"c", "h", "-", "s", "3", "-", "a", "b", "c", "1", "2", "3">> >>),
                      load_non_terminated_uuids_backup(
                          << <<"c", "h", "-", "s", "3", "-", "a", "b", "c", "1", "2", "3">> >>)} :
           loaded = { <<"a", "b", "c", "1", "2", "3">> }

\* a file of a padded line and a prefixed line that both load as 'b'
C15_Witness ==
    /\ r_pc = "start"
    /\ r_lines = << <<" ", "b", " ">>, <<"c", "h", "-", "s", "3", "-", "b">> >>
    /\ r_allow = { <<"b">> }

\* C16: the literal 'ch-s3-' is stripped alike from allow-list entries and
\* from the trailing segment of discovered paths: a discovered path whose
\* trailing segment t is a line of the allow-list file is not dirty, whether
\* or not t starts with 'ch-s3-'.
C16_LiteralStrippedOnBothSides ==
    r_pc \in {"found", "written"} =>
        \A p \in Range(r_prefixes) :
            (\E i \in 1..Len(r_lines) :
                 Trimmed(r_lines[i]) # <<>> /\ Trimmed(r_lines[i]) = FinalSegment(p))
                => p \notin Range(r_dirty)

\* C18: in the artifact a resolver writes, for any input list of discovered
\* paths, 'dirty_paths' is sorted ascending, holds no path twice, and holds
\* only discovered paths of the input.
C18_DirtyPathsSortedAndUnique ==
    r_pc = "written" =>
        /\ \A i, j \in 1..Len(r_output) :
               i < j => StrLess(r_output[i], r_output[j])
        /\ Range(r_output) \subseteq Range(r_file.prefixes)

\* the discovered-paths file carried size data
InputCarriedSizes ==
    r_file.format = "dict" /\ r_file.has_sizes /\ r_file.sizes # <<>>

\* C19: a resolver writes 'dirty_paths_sizes_bytes' and 'summary' only when
\* the discovered-paths file carried size data; from an old-format list, or
\* a file whose 'prefix_sizes_bytes' is missing or empty, both fields are
\* omitted and no size entry, zero or other, is produced.
C19_SizesOnlyFromSizeData ==
    /\ r_pc = "written" =>
           /\ (r_output_sizes.present \/ r_summary.present) => InputCarriedSizes
           /\ r_output_sizes.present <=> r_summary.present
           /\ ~InputCarriedSizes =>
                  /\ dirty_sizes = <<>>
                  /\ r_output_sizes = [present |-> FALSE, value |-> <<>>]
                  /\ r_summary = [present |-> FALSE, value |-> <<>>]
    /\ r_pc \in {"start", "found"} => ~r_output_sizes.present /\ ~r_summary.present

\* a new-format file with an empty size map gave two dirty paths and an
\* artifact without sizes and summary
C19_Witness ==
    /\ r_pc = "written"
    /\ r_file.format = "dict"
    /\ r_file.has_sizes
    /\ r_file.sizes = <<>>
    /\ Len(r_output) = 2
    /\ ~r_output_sizes.present
    /\ ~r_summary.present

-----------------------------------------------------------------------------
(* Claims about the deletion engine *)

\* the store requests made so far
ListCalls == Cardinality({i \in DOMAIN tasks : tasks[i].st # "queued"})

DeleteCalls == SumOver(DOMAIN tasks, [i \in DOMAIN tasks |-> Len(tasks[i].batches)])

NoStoreCall == ~e_client /\ tasks = <<>> /\ ListCalls = 0 /\ DeleteCalls = 0

\* C2: in a live run no store call (client creation, listing, bulk delete)
\* happens before get_confirmation has returned True, and after the answer
\* 'no' the run has ended with exit status 0 without any store call and
\* without having submitted a single prefix.
C2_NoStoreCallBeforeConfirmation ==
    /\ (~e_dry_run /\ e_answer # "yes") => NoStoreCall
    /\ e_answer = "no" => (e_pc = "exit" /\ e_exit = 0 /\ NoStoreCall)
    /\ e_dry_run => e_answer = "none"

\* a live run on a non-empty dirty set was declined after a re-prompt
C2_Witness ==
    /\ ~e_dry_run
    /\ dirty_paths # <<>>
    /\ e_reprompts = 1
    /\ e_answer = "no"
    /\ e_pc = "exit"
    /\ \E k \in Range(bucket) : startswith(k, dirty_paths[1] \o <<"/">>)

\* C3: in a dry run no bulk-delete call is issued and every per-path result
\* reports deleted = 0 and errors = [] with the number of objects the listing
\* found, which is the number of objects under the path when no listing
\* request failed.
C3_DryRunDeletesNothing ==
    e_dry_run =>
        /\ DeleteCalls = 0
        /\ \A i \in DOMAIN tasks :
               tasks[i].st = "done" =>
                   /\ tasks[i].raised = "none"
                   /\ tasks[i].ret = <<Len(tasks[i].object_keys), 0, <<>>>>
                   /\ ~tasks[i].list_failed =>
                          tasks[i].ret[1] =
                              Cardinality({k \in Range(bucket) :
                                  startswith(k, tasks[i].prefix \o <<"/">>)})
        /\ \A p \in DOMAIN results :
               /\ results[p][2] = 0
               /\ results[p][3] = <<>>
               /\ \E i \in DOMAIN tasks :
                      tasks[i].prefix = p /\ results[p][1] = Len(tasks[i].object_keys)

\* a dry run has ended after finding two objects under one path
C3_Witness ==
    /\ e_dry_run
    /\ e_pc = "exit"
    /\ \E p \in DOMAIN results : results[p] = <<2, 0, <<>>>>
    /\ Len(bucket) >= 2

CallsFor(n) == (n + 999) \div 1000

\* the c-th chunk of 1000 of a list
Chunk(keys, c) ==
    SubSeq(keys, 1000 * (c - 1) + 1,
           IF 1000 * c < Len(keys) THEN 1000 * c ELSE Len(keys))

\* C5: for a path with n listed keys a live delete_prefix issues exactly
\* ceil(n / 1000) bulk-delete calls, none when n = 0 (the result is then
\* found = 0, deleted = 0, errors = [] and the path is not a failed one); the
\* c-th call carries the c-th thousand of the listed keys, so each call but
\* the last carries exactly 1000, and 2500 keys give 1000, 1000, 500.
C5_BatchesPartitionListing ==
    ~e_dry_run =>
        \A i \in DOMAIN tasks :
            LET t == tasks[i]
                n == Len(t.object_keys)
            IN  /\ Len(t.batches) <= CallsFor(n)
                /\ \A c \in 1..Len(t.batches) :
                       /\ t.batches[c] = Chunk(t.object_keys, c)
                       /\ Len(t.batches[c]) <= 1000
                       /\ c < CallsFor(n) => Len(t.batches[c]) = 1000
                /\ t.st = "done" =>
                       /\ Len(t.batches) = CallsFor(n)
                       /\ n = 0 => t.ret = <<0, 0, <<>>>>
                       /\ n = 2500 =>
                              [c \in 1..3 |-> Len(t.batches[c])] = <<1000, 1000, 500>>
                /\ (n = 0 /\ e_pc = "exit" /\ e_report # <<>>) =>
                       t.prefix \notin e_report.failed_prefixes

\* a live delete_prefix has sent 2500 listed keys in three calls
C5_Witness ==
    /\ ~e_dry_run
    /\ \E i \in DOMAIN tasks :
           /\ tasks[i].st = "done"
           /\ Len(tasks[i].object_keys) = 2500
           /\ Len(tasks[i].batches) = 3
           /\ Len(tasks[i].batches[3]) = 500

\* the requests of a task that did not delete every key
FailedCalls(t) == {c \in 1..Len(t.outcomes) : t.outcomes[c] # "deleted"}

\* C6: a failing bulk-delete call (per-key errors in the response, or the
\* call raising) stops neither the remaining batches of its path nor any
\* other path: every task issues every batch and returns, every path gets
\* its result, and the error list of a path holds one message per failed
\* call of that path, each naming a key of that path or the raised error.
C6_FailuresStayWithTheirPath ==
    ~e_dry_run =>
        /\ \A i \in DOMAIN tasks :
               LET t == tasks[i]
               IN  t.st = "done" =>
                       /\ t.raised = "none"
                       /\ Len(t.batches) = CallsFor(Len(t.object_keys))
                       /\ Len(t.ret[3]) = Cardinality(FailedCalls(t))
                       /\ \A m \in Range(t.ret[3]) :
                              \/ m.label \in {"ClientError", "Unexpected error"}
                              \/ /\ m.Key \in Range(t.object_keys)
                                 /\ startswith(m.Key, t.prefix \o <<"/">>)
        /\ (e_pc \in {"report", "exit"} /\ tasks # <<>>) =>
               /\ ~e_crashed
               /\ \A i \in DOMAIN tasks :
                      /\ tasks[i].st = "done"
                      /\ tasks[i].prefix \in DOMAIN results
                      /\ results[tasks[i].prefix] = tasks[i].ret

\* the first of three calls of a path raised, the third refused a key, and
\* the other path was deleted without an error
C6_Witness ==
    /\ ~e_dry_run
    /\ e_pc = "exit"
    /\ \E i, j \in DOMAIN tasks :
           /\ tasks[i].outcomes = <<"ClientError", "deleted", "one_error">>
           /\ tasks[i].ret[2] = 1499
           /\ Len(tasks[i].ret[3]) = 2
           /\ tasks[j].ret = <<1, 1, <<>>>>

\* a path had errors: its error list is not empty, or in a live run it
\* deleted fewer objects than it found
HadErrors(p) ==
    \/ results[p][3] # <<>>
    \/ ~e_dry_run /\ results[p][2] < results[p][1]

\* C7 as stated: the engine exits with non-zero status iff the run is not a
\* dry run and at least one path had errors.
C7_ExitNonZeroIffLiveErrors ==
    e_pc = "exit" =>
        (e_exit # 0 <=> (~e_dry_run /\ \E p \in DOMAIN results : HadErrors(p)))

\* the input file can be loaded
InputLoads == e_file.kind \in {"ok", "no_dirty_paths"}

\* C7 (amended): a run whose input file loads exits with non-zero status iff
\* it is not a dry run and at least one path had errors, so a dry run then
\* exits 0 whatever the store returns; a run whose input file cannot be
\* loaded exits 1, dry run or not.
C7_ExitStatus ==
    e_pc = "exit" =>
        /\ InputLoads =>
               /\ e_exit # 0 <=>
                      (~e_dry_run /\ \E p \in DOMAIN results : HadErrors(p))
               /\ e_dry_run => e_exit = 0
        /\ ~InputLoads => e_exit = 1

\* a live run whose input loaded has exited 1 because the delete call of one
\* path raised
C7_Witness ==
    /\ e_pc = "exit"
    /\ ~e_dry_run
    /\ e_exit = 1
    /\ InputLoads
    /\ \E i \in DOMAIN tasks : tasks[i].outcomes = <<"ClientError">>

SaysYes == { <<"y", "e", "s">>, <<" ", "Y", "E", "S">> }
SaysNo == { <<"n", "o">>, <<"N", "o", " ">> }

\* the positions of the lines read so far that are neither
Unrecognized == {i \in 1..e_read : e_stdin[i] \notin SaysYes \cup SaysNo}

\* C20: get_confirmation reads lines up to the first one that is 'yes' or 'no'
\* after trimming and lower-casing; it prints one re-prompt per unrecognized
\* line read, answers True exactly on 'yes' and False exactly on 'no', and
\* while the last line read is unrecognized the run stays at the prompt with
\* no store call; after 'maybe' then 'no' there is one re-prompt, exit 0 and
\* no store call.
C20_ConfirmationLoop ==
    /\ e_reprompts = Cardinality(Unrecognized)
    /\ \A i \in 1..(e_read - 1) : i \in Unrecognized
    /\ e_answer = "yes" <=> (e_read > 0 /\ e_stdin[e_read] \in SaysYes)
    /\ e_answer = "no" <=> (e_read > 0 /\ e_stdin[e_read] \in SaysNo)
    /\ e_read \in Unrecognized => (e_pc = "confirm" /\ NoStoreCall)
    /\ e_dry_run => e_read = 0
    /\ (e_read = 2 /\ e_stdin = << <<"m", "a", "y", "b", "e">>, <<"n", "o">> >>) =>
           /\ e_reprompts = 1
           /\ e_pc = "exit"
           /\ e_exit = 0
           /\ NoStoreCall

\* 'maybe' then 'no' was typed in a live run on a dirty path holding objects
C20_Witness ==
    /\ ~e_dry_run
    /\ e_stdin = << <<"m", "a", "y", "b", "e">>, <<"n", "o">> >>
    /\ e_read = 2
    /\ e_reprompts = 1
    /\ e_pc = "exit"
    /\ e_exit = 0
    /\ dirty_paths # <<>>
    /\ \E k \in Range(bucket) : startswith(k, dirty_paths[1] \o <<"/">>)

\* C23: a run whose dirty-set file is missing, is not valid JSON, does not
\* hold an object at the top level, or has no 'dirty_paths' or one that is
\* not a list, exits with a non-zero status right after loading: no
\* summary, no prompt, no store call.
C23_MalformedInputIsFatal ==
    (e_file.kind # "ok" /\ e_pc # "load") =>
        /\ e_pc = "exit"
        /\ e_exit # 0
        /\ e_read = 0
        /\ NoStoreCall

\* every task of the first run listed its path to the end, sent every key it
\* listed and was told that each was deleted, and the run exited 0
FirstRunDeletedAll ==
    /\ e_run = 2
    /\ e_first.exit = 0
    /\ e_first.tasks # <<>>
    /\ \A i \in DOMAIN e_first.tasks :
           LET t == e_first.tasks[i]
           IN  /\ ~t.list_failed
               /\ t.raised = "none"
               /\ t.ret = <<Len(t.object_keys), Len(t.object_keys), <<>>>>

C26_OneWritePerKey ==
    /\ completed = Cardinality(DOMAIN results)
    /\ \A p \in DOMAIN results :
           \E i \in DOMAIN tasks :
               /\ tasks[i].prefix = p
               /\ tasks[i].st = "done"
               /\ tasks[i].collected
               /\ results[p] = tasks[i].ret
    /\ \A i, j \in DOMAIN tasks : i # j => tasks[i].prefix # tasks[j].prefix

\* the tasks that are inside a delete call for objects of the path p
InFlight(p) == {i \in DOMAIN tasks : tasks[i].prefix = p /\ tasks[i].in_flight}

\* C27: in a live run, for every loaded list of dirty paths and every
\* worker count, at most one delete call is in flight for a dirty path at
\* any moment, and a task is inside a call only when all its earlier
\* batches have returned.
C27_OneDeleteCallPerPath ==
    /\ \A p \in Range(dirty_paths) : Cardinality(InFlight(p)) <= 1
    /\ \A i \in DOMAIN tasks :
           tasks[i].in_flight =>
               /\ ~e_dry_run
               /\ Len(tasks[i].batches) = tasks[i].k
               /\ Len(tasks[i].outcomes) = tasks[i].k

\* the steps of main from one position to the next: loading, summary,
\* prompt, processing (client, submission, collection), report, log, end
PhaseOrder ==
    { <<"load", "summary">>, <<"load", "exit">>, <<"summary", "confirm">>,
      <<"summary", "client">>, <<"confirm", "client">>, <<"confirm", "exit">>,
      <<"client", "submit">>, <<"submit", "collect">>, <<"collect", "report">>,
      <<"report", "log">>, <<"log", "finish">>, <<"finish", "exit">> }

PhaseStep ==
    \/ e_pc' = e_pc
    \/ /\ <<e_pc, e_pc'>> \in PhaseOrder
       /\ e_pc = "summary" => (e_pc' = "confirm" <=> ~e_dry_run)
       /\ e_pc' = "exit" =>
              (e_exit' # 0 => e_pc \in {"load", "finish"})

\* C28: every run of the engine goes through loading, summary, prompt (in a
\* live run only), processing, report and end in that order, leaving early
\* only for the end; there is no prompt in a dry run; the report and the log
\* exist only when every per-path task has completed and been collected;
\* and the exit status of a run with path errors is set only after the
\* report and the log.
C28_RunFollowsItsPhases ==
    /\ [][PhaseStep]_vars
    /\ [](e_dry_run => (e_pc # "confirm" /\ e_read = 0 /\ e_answer = "none"))
    /\ []((e_pc \in {"report", "log", "finish"} \/ e_report # <<>>) =>
              /\ tasks # <<>>
              /\ \A i \in DOMAIN tasks : tasks[i].st = "done" /\ tasks[i].collected
              /\ DOMAIN results = Range(dirty_paths))
    /\ []((e_exit > 0 /\ InputLoads) =>
              /\ e_pc = "exit"
              /\ e_report # <<>>
              /\ e_report.failed_prefixes # {})

\* a live run, confirmed, has ended with status 1 after its report and its
\* log were written
C28_Witness ==
    /\ e_pc = "exit"
    /\ ~e_dry_run
    /\ e_answer = "yes"
    /\ e_exit = 1
    /\ e_report.log_data # <<>>
    /\ e_report.log_data.total_errors >= 1

\* the keys the store reported as deleted to the calls of the task t
Successes(t) ==
    SumOver(DOMAIN t.batches,
            [c \in DOMAIN t.batches |->
                Len(s3_deleted_keys(t.batches[c], t.outcomes[c]))])

\* C29: for every loaded list of dirty paths, once the report exists its
\* totals are the sums of found, deleted and number of errors over the
\* per-prefix results, the deleted count of a path is the sum of the
\* successes of the delete calls made for that path, and the number of
\* prefixes reported is the number of per-prefix results.
C29_SummaryMatchesResults ==
    e_report # <<>> =>
        /\ e_report.total_objects_found =
               SumOver(DOMAIN results, [p \in DOMAIN results |-> results[p][1]])
        /\ e_report.total_objects_deleted =
               SumOver(DOMAIN results, [p \in DOMAIN results |-> results[p][2]])
        /\ e_report.total_errors =
               SumOver(DOMAIN results, [p \in DOMAIN results |-> Len(results[p][3])])
        /\ \A p \in DOMAIN results :
               results[p][2] =
                   SumOver({i \in DOMAIN tasks : tasks[i].prefix = p},
                           [i \in DOMAIN tasks |-> Successes(tasks[i])])
        /\ Len(dirty_paths) = Cardinality(DOMAIN results)
        /\ e_report.log_data # <<>> =>
               /\ e_report.log_data.total_prefixes =
                      Cardinality(DOMAIN e_report.log_data.results)
               /\ e_report.log_data.total_objects_deleted =
                      e_report.total_objects_deleted

-----------------------------------------------------------------------------
(* Claims about the enumerators *)

\* the tasks whose result the collecting loop has taken
Merged == {i \in DOMAIN l_tasks : l_tasks[i].collected}

\* ch is a group directly under candidate c in the bucket
IsChildOf(ch, c) ==
    /\ ch # <<>>
    /\ \A i \in 1..Len(ch) : ch[i] # "/"
    /\ \E k \in Range(l_store) : startswith(k, c \o <<"/">> \o ch \o <<"/">>)

\* C9: for every number of candidates, every worker count (also fewer
\* workers than candidates) and every completion order, the collecting loop
\* writes one entry per finished task under that task's own candidate, with
\* the children that task found under that candidate, and after the phase
\* the map has exactly one entry per submitted candidate, also when listing
\* requests of some candidates failed.
C9_OneEntryPerCandidate ==
    /\ Len(l_written) = Cardinality(Merged)
    /\ completed_count = Cardinality(Merged)
    /\ Cardinality(DOMAIN uuid_to_prefixes) = Cardinality(Merged)
    /\ DOMAIN uuid_to_prefixes = {ch_s3_prefixes[i] : i \in Merged}
    /\ \A i \in Merged :
           /\ \E n \in 1..Len(l_written) : l_written[n] = ch_s3_prefixes[i]
           /\ uuid_to_prefixes[ch_s3_prefixes[i]] = l_tasks[i].ret[2]
           /\ \A ch \in Range(l_tasks[i].ret[2]) : IsChildOf(ch, ch_s3_prefixes[i])
    /\ l_pc = "listed" =>
           /\ DOMAIN uuid_to_prefixes = Range(ch_s3_prefixes)
           /\ completed_count = Len(ch_s3_prefixes)

\* three candidates were listed by one worker, a request of one of them
\* failed, and the results were merged in another order than submitted
C9_Witness ==
    /\ l_pc = "listed"
    /\ l_workers = 1
    /\ Len(ch_s3_prefixes) = 3
    /\ l_written[1] = ch_s3_prefixes[3]
    /\ \E i \in DOMAIN l_tasks : l_tasks[i].failed_request > 0
    /\ uuid_to_prefixes[<<"b">>] = << <<"x">> >>

\* C10: a candidate one of whose listing requests failed, the first or a
\* later one, contributes zero children, and the listing of every other
\* candidate still completes.
C10_FailedListingGivesNoChildren ==
    /\ \A i \in DOMAIN l_tasks :
           (l_tasks[i].st = "done" /\ l_tasks[i].failed_request > 0) =>
               l_tasks[i].ret = <<ch_s3_prefixes[i], <<>> >>
    /\ l_pc = "listed" =>
           \A i \in DOMAIN l_tasks :
               /\ l_tasks[i].collected
               /\ l_tasks[i].failed_request > 0 =>
                      uuid_to_prefixes[ch_s3_prefixes[i]] = <<>>

\* C11: a path one of whose sizing requests failed, the first or a later
\* one, is recorded with size 0, and the sizing of every other path still
\* completes.
C11_FailedSizingGivesZero ==
    /\ \A i \in DOMAIN s_tasks :
           (s_tasks[i].st = "done" /\ s_tasks[i].failed_request > 0) =>
               s_tasks[i].ret = <<sorted_full_paths[i], 0>>
    /\ l_pc = "written" =>
           \A i \in DOMAIN s_tasks :
               /\ s_tasks[i].collected
               /\ s_tasks[i].failed_request > 0 =>
                      prefix_to_size[sorted_full_paths[i]] = 0

\* the objects under a full path, and what their sizes add up to
ObjectsUnder(full_path) ==
    {k \in Range(l_store) : startswith(k, full_path \o <<"/">>)}

ExactSize(full_path) ==
    SumOver(ObjectsUnder(full_path), [k \in ObjectsUnder(full_path) |-> ObjectSize(k)])

\* C12: when no request of a sizing task failed, the size it returns, the
\* size the collecting loop records and the size written for the path p are
\* the sum of the sizes of all objects whose key starts with p + '/', over
\* however many pages the listing took.
C12_SizeIsExactSum ==
    \A i \in DOMAIN s_tasks :
        (s_tasks[i].st = "done" /\ s_tasks[i].failed_request = 0) =>
            /\ s_tasks[i].ret = <<sorted_full_paths[i], ExactSize(sorted_full_paths[i])>>
            /\ s_tasks[i].collected =>
                   prefix_to_size[sorted_full_paths[i]] = ExactSize(sorted_full_paths[i])
            /\ l_pc = "written" =>
                   l_output.prefix_sizes_bytes[sorted_full_paths[i]] =
                       ExactSize(sorted_full_paths[i])

\* the three objects of a/y were summed over two pages and written
C12_Witness ==
    /\ l_pc = "written"
    /\ \E i \in DOMAIN s_tasks :
           /\ s_tasks[i].full_path = <<"a", "/", "y">>
           /\ s_tasks[i].requests = 2
           /\ s_tasks[i].failed_request = 0
           /\ Cardinality(ObjectsUnder(s_tasks[i].full_path)) = 3
    /\ l_output.prefix_sizes_bytes[<<"a", "/", "y">>] = 28

\* the segments of the keys under candidate c
SegmentsUnder(c) ==
    {split(k, "/") : k \in {k \in Range(l_store) : startswith(k, c \o <<"/">>)}}

\* the groups under candidate c, the one with the empty name included, and
\* the number of entries a delimited listing of c has: its groups and the
\* objects directly under it
GroupsUnder(c) == {sg[2] : sg \in {sg \in SegmentsUnder(c) : Len(sg) >= 3}}

EntriesUnder(c) ==
    Cardinality(GroupsUnder(c)) +
    Cardinality({sg \in SegmentsUnder(c) : Len(sg) = 2})

PagesOf(n) == IF n = 0 THEN 1 ELSE (n + PageSize - 1) \div PageSize

\* C13: list_next_level_prefixes sends its first request without a
\* continuation token and every later request with the token of the page
\* before it; when no request fails it stops exactly at the page without a
\* token, after all pages, and returns the non-empty group names of all of
\* them; a candidate without groups gives the empty set and no error.
C13_AllPagesCollected ==
    \A i \in DOMAIN l_tasks :
        LET t == l_tasks[i]
            c == ch_s3_prefixes[i]
        IN  /\ Len(t.tokens_sent) = t.requests
            /\ \A n \in 1..t.requests : t.tokens_sent[n] = (n - 1) * PageSize
            /\ t.requests <= PagesOf(EntriesUnder(c))
            /\ (t.st = "running" \/ t.failed_request > 0) =>
                   t.continuation_token = (t.requests - (IF t.failed_request > 0 THEN 1 ELSE 0)) * PageSize
            /\ (t.st = "done" /\ t.failed_request = 0) =>
                   /\ t.requests = PagesOf(EntriesUnder(c))
                   /\ t.next_level_prefixes = GroupsUnder(c) \ {<<>>}
                   /\ t.ret = <<c, SortedSeqOf(GroupsUnder(c) \ {<<>>})>>
            /\ (t.st = "done" /\ GroupsUnder(c) = {}) => t.ret = <<c, <<>> >>

\* a candidate with five entries was listed in three requests, and a
\* candidate without any key in one
C13_Witness ==
    \E i, j \in DOMAIN l_tasks :
        /\ l_tasks[i].st = "done"
        /\ l_tasks[i].tokens_sent = <<0, 2, 4>>
        /\ l_tasks[i].failed_request = 0
        /\ l_tasks[i].ret = << <<"a">>, << <<"s">>, <<"x">>, <<"y">> >> >>
        /\ l_tasks[j].st = "done"
        /\ l_tasks[j].failed_request = 0
        /\ l_tasks[j].requests = 1
        /\ l_tasks[j].ret = << <<"c">>, <<>> >>

\* C17: the artifact an enumerator writes has 'prefixes' in strictly
\* ascending order (sorted, no duplicates), a size entry for exactly the
\* paths of 'prefixes', and only non-negative integer sizes, whatever the
\* worker count, the completion order and the requests that failed.
C17_ArtifactWellFormed ==
    l_pc = "written" =>
        /\ \A i, j \in 1..Len(l_output.prefixes) :
               i < j => StrLess(l_output.prefixes[i], l_output.prefixes[j])
        /\ DOMAIN l_output.prefix_sizes_bytes = Range(l_output.prefixes)
        /\ \A q \in DOMAIN l_output.prefix_sizes_bytes :
               l_output.prefix_sizes_bytes[q] \in Nat
        /\ \A q \in Range(l_output.prefixes) :
               \E c \in Range(ch_s3_prefixes) : startswith(q, c \o <<"/">>)

\* an artifact of three paths was written after the results of the listing
\* were merged in reverse order and a sizing request failed
C17_Witness ==
    /\ l_pc = "written"
    /\ l_written = << <<"c">>, <<"b">>, <<"a">> >>
    /\ Len(l_output.prefixes) = 3
    /\ \E i \in DOMAIN s_tasks : s_tasks[i].failed_request > 0
    /\ \E i \in DOMAIN l_tasks : l_tasks[i].failed_request > 0

\* what the bucket and the candidates alone say the artifact holds: the
\* paths candidate/group, each with the sum of the sizes of the objects
\* under it
ExpectedPaths ==
    UNION {{c \o <<"/">> \o g : g \in GroupsUnder(c) \ {<<>>}} :
              c \in Range(ch_s3_prefixes)}

ExpectedSizes == [q \in ExpectedPaths |-> ExactSize(q)]

\* no request of the run has failed
NoRequestFailed ==
    /\ \A i \in DOMAIN l_tasks : l_tasks[i].failed_request = 0
    /\ \A i \in DOMAIN s_tasks : s_tasks[i].failed_request = 0

\* C21: when no request fails, the 'prefixes' list and the path-to-size map
\* of the artifact are determined by the bucket and the candidates alone:
\* the paths candidate/group in ascending order and the exact size of each,
\* the same for every worker count and every completion order of the
\* listing and sizing tasks.
C21_ArtifactIndependentOfSchedule ==
    (l_pc = "written" /\ NoRequestFailed) =>
        /\ Range(l_output.prefixes) = ExpectedPaths
        /\ \A i, j \in 1..Len(l_output.prefixes) :
               i < j => StrLess(l_output.prefixes[i], l_output.prefixes[j])
        /\ l_output.prefix_sizes_bytes = ExpectedSizes

\* two workers finished the listing in another order than submitted, no
\* request failed, and the artifact of four paths was written
C21_Witness ==
    /\ l_pc = "written"
    /\ NoRequestFailed
    /\ l_workers = 2
    /\ l_written = << <<"b">>, <<"c">>, <<"a">> >>
    /\ Len(l_output.prefixes) = 4

\* the sizing phase has begun: its pool exists or has been left
SizingBegun == l_pc \in {"size_collect", "written"} \/ s_tasks # <<>>

\* C25: once the sizing phase has begun, every candidate has a listing task
\* that has completed and whose children are in the candidate-to-children
\* map; no listing task and sizing task run, or wait in a pool, at the same
\* time.
C25_ListingDrainedBeforeSizing ==
    /\ SizingBegun =>
           /\ Len(l_tasks) = Len(ch_s3_prefixes)
           /\ \A i \in DOMAIN l_tasks :
                  /\ l_tasks[i].st = "done"
                  /\ l_tasks[i].collected
                  /\ ch_s3_prefixes[i] \in DOMAIN uuid_to_prefixes
                  /\ uuid_to_prefixes[ch_s3_prefixes[i]] = l_tasks[i].ret[2]
    /\ (\E i \in DOMAIN l_tasks : l_tasks[i].st # "done" \/ ~l_tasks[i].collected) =>
           /\ s_tasks = <<>>
           /\ l_pc = "collect"

\* the sizing pool holds a finished and a waiting task, after a listing phase
\* of three tasks on two workers, one of them of several requests
C25_Witness ==
    /\ l_pc = "size_collect"
    /\ l_workers = 2
    /\ Len(l_tasks) = 3
    /\ \E i \in DOMAIN l_tasks : l_tasks[i].requests >= 2
    /\ \E i, j \in DOMAIN s_tasks :
           s_tasks[i].st = "done" /\ s_tasks[j].st = "queued"

-----------------------------------------------------------------------------
(* Claims about the discovery *)

\* five hyphen-separated groups of 8, 4, 4, 4 and 12 hex digits
UUIDShaped(str) ==
    LET groups == split(str, "-")
    IN  /\ Len(groups) = 5
        /\ <<Len(groups[1]), Len(groups[2]), Len(groups[3]), Len(groups[4]),
              Len(groups[5])>> = <<8, 4, 4, 4, 12>>
        /\ \A g \in 1..5 : Range(groups[g]) \subseteq HexDigits

\* the top-level groups of the bucket: what precedes the first '/' of a key
TopLevelGroups ==
    {split(k, "/")[1] : k \in {k \in Range(d_store) : Len(split(k, "/")) >= 2}}

\* C22: when no request failed, discover_ch_s3_prefixes returns in ascending
\* order exactly the top-level groups of all pages that are 'ch-s3-'
\* followed by a UUID-shaped string; every other group is dropped.
C22_DiscoveryKeepsExactlyUuidNames ==
    (d_pc \in {"discovered", "listing", "returned"} /\ d_failed_request = 0) =>
        /\ Range(d_result) =
               {g \in TopLevelGroups :
                   /\ startswith(g, ch_s3)
                   /\ UUIDShaped(SubSeq(g, 7, Len(g)))}
        /\ \A i, j \in 1..Len(d_result) : i < j => StrLess(d_result[i], d_result[j])

-----------------------------------------------------------------------------
(* Claims about the termination of the listings *)

\* the run of the enumerator is over: nothing was discovered, or the
\* artifact is written
RunOver == d_pc = "returned" \/ l_pc = "written"

\* a loop that is still going has seen neither a page without a token nor a
\* failure, and a loop that was left has seen one of them in its last request
LoopLeftWhenDue(going, left, requests, continuation_token, failed_request) ==
    /\ going => failed_request = 0 /\ (requests = 0 \/ continuation_token # 0)
    /\ left => \/ failed_request = requests /\ requests > 0
               \/ failed_request = 0 /\ continuation_token = 0 /\ requests > 0

LoopsLeftWhenDue ==
    /\ d_pc # "idle" =>
           LoopLeftWhenDue(d_pc = "discover", d_pc # "discover", d_requests,
                           d_continuation_token, d_failed_request)
    /\ \A i \in DOMAIN l_tasks :
           LoopLeftWhenDue(l_tasks[i].st # "done", l_tasks[i].st = "done",
                           l_tasks[i].requests, l_tasks[i].continuation_token,
                           l_tasks[i].failed_request)
    /\ \A i \in DOMAIN s_tasks :
           LoopLeftWhenDue(s_tasks[i].st # "done", s_tasks[i].st = "done",
                           s_tasks[i].requests, s_tasks[i].continuation_token,
                           s_tasks[i].failed_request)

\* at a store that puts a token on every page, only a request that raises
\* ends a loop
OnlyAFailureEndsALoop ==
    /\ d_pc \notin {"idle", "discover"} => d_failed_request > 0
    /\ \A i \in DOMAIN l_tasks : l_tasks[i].st = "done" => l_tasks[i].failed_request > 0
    /\ \A i \in DOMAIN s_tasks : s_tasks[i].st = "done" => s_tasks[i].failed_request > 0

\* C30: each of the three paginated loops (discover_ch_s3_prefixes,
\* list_next_level_prefixes, sum_sizes_in_prefix) is left at the first page
\* without a continuation token or the first request that raises, and not
\* before; so at a store whose listings end the run of the enumerator
\* eventually is over, every task of both pools done; and at a store that
\* puts a token on every page no loop is ever left unless a request raises.
C30_ListingsTerminate ==
    /\ [] LoopsLeftWhenDue
    /\ FiniteStore => <> RunOver
    /\ [] (s3_endless => OnlyAFailureEndsALoop)

\* the artifact is written at a store whose listings end, after a discovery,
\* a listing task and a sizing task of two pages each, none of them failed
C30_Witness ==
    /\ FiniteStore
    /\ l_pc = "written"
    /\ d_requests >= 2 /\ d_failed_request = 0
    /\ \E i \in DOMAIN l_tasks :
           l_tasks[i].requests >= 2 /\ l_tasks[i].failed_request = 0
    /\ \E i \in DOMAIN s_tasks :
           s_tasks[i].requests >= 2 /\ s_tasks[i].failed_request = 0

\* at a store that puts a token on every page, a listing task is still
\* going after every request the model follows it for
C30_EndlessWitness ==
    /\ s3_endless
    /\ \E i \in DOMAIN l_tasks :
           l_tasks[i].requests = MaxRequests /\ l_tasks[i].st = "running"

-----------------------------------------------------------------------------
(* Claims about the sizes a resolver writes *)

\* the size the discovered-paths file gives a path, 0 when it gives none
InputSize(path) ==
    IF r_file.has_sizes /\ path \in DOMAIN r_file.sizes THEN r_file.sizes[path] ELSE 0

\* C31: when a resolver has written 'dirty_paths_sizes_bytes', the keys of
\* the map are the paths of 'dirty_paths', each value is the size the input
\* file gave the path (0 when it gave none), summary.total_dirty_size_bytes
\* is the sum of the values and summary.total_dirty_paths the length of
\* 'dirty_paths'; and when no path is dirty neither the map nor the summary
\* is written, whatever sizes the input carried.
C31_WrittenSizesMatchInput ==
    r_pc = "written" =>
        /\ r_output_sizes.present =>
               /\ DOMAIN r_output_sizes.value = Range(r_output)
               /\ \A path \in Range(r_output) :
                      r_output_sizes.value[path] = InputSize(path)
               /\ r_summary.present
               /\ r_summary.value.total_dirty_size_bytes =
                      SumOver(Range(r_output),
                              [path \in Range(r_output) |-> InputSize(path)])
               /\ r_summary.value.total_dirty_paths = Len(r_output)
        /\ r_output = <<>> => ~r_output_sizes.present /\ ~r_summary.present

\* a size map is written for two dirty paths, one with a size in the input
\* and one without
C31_Witness ==
    /\ r_pc = "written"
    /\ r_output_sizes.present
    /\ Cardinality(Range(r_output)) = 2
    /\ \E path \in Range(r_output) : path \notin DOMAIN r_file.sizes
    /\ \E path \in Range(r_output) :
           path \in DOMAIN r_file.sizes /\ r_output_sizes.value[path] > 0

\* no path is dirty although the input carried a size, and nothing but
\* 'dirty_paths' is written
C31_EmptyWitness ==
    /\ r_pc = "written"
    /\ r_output = <<>>
    /\ r_file.has_sizes /\ r_file.sizes # <<>>
    /\ ~r_output_sizes.present

-----------------------------------------------------------------------------
(* Claims about the two resolvers side by side *)

\* C32: on the allow-list file and the discovered-path list of any run, the
\* functions of get_final_dirty_data_prefix.py and those of
\* get_final_dirty_backup_prefix.py return the same: the loaded allow-list,
\* the identifier of every path, and the dirty paths; so what a run has
\* loaded and found is what the other script would have loaded and found.
C32_ResolversAgree ==
    /\ load_non_terminated_uuids(r_lines) = load_non_terminated_uuids_backup(r_lines)
    /\ \A full_path \in Range(r_file.prefixes) :
           extract_uuid_from_path(full_path) =
               extract_next_level_uuid_from_path(full_path)
    /\ find_dirty_data_prefixes(r_file.prefixes,
                                load_non_terminated_uuids(r_lines)) =
           find_dirty_backup_prefixes(r_file.prefixes,
                                      load_non_terminated_uuids_backup(r_lines))
    /\ r_pc \in {"start", "found", "written"} =>
           /\ r_allow = load_non_terminated_uuids(r_lines)
           /\ r_allow = load_non_terminated_uuids_backup(r_lines)
    /\ r_pc \in {"found", "written"} =>
           /\ r_dirty = find_dirty_data_prefixes(r_prefixes, r_allow)
           /\ r_dirty = find_dirty_backup_prefixes(r_prefixes, r_allow)

\* the backup resolver has found a dirty and dropped an allow-listed path,
\* from an allow-list file with a prefixed and a padded line
C32_Witness ==
    /\ r_pc = "found"
    /\ r_variant = "backup"
    /\ \E i \in DOMAIN r_lines : startswith(r_lines[i], ch_s3)
    /\ \E i \in DOMAIN r_lines : r_lines[i] # <<>> /\ strip(r_lines[i]) # r_lines[i]
    /\ r_dirty # <<>>
    /\ Len(r_dirty) < Len(r_prefixes)

-----------------------------------------------------------------------------
(* Claims about the artifact of the enumerators *)

\* discover_ch_s3_prefixes has returned an empty list
NothingDiscovered ==
    /\ l_variant = "backup"
    /\ d_pc \in {"discovered", "returned"}
    /\ d_result = <<>>

\* C33: when discover_ch_s3_prefixes returns no name, also because its
\* first request failed, collect_all_backup_prefixes returns without a
\* listing or a sizing task ever submitted and with the file at the output
\* path as it was, an older artifact included; the data enumerator, whatever
\* its requests do, ends with its own artifact written there.
C33_NoDiscoveryLeavesTheFile ==
    /\ [] (NothingDiscovered =>
               l_pc = "wait" /\ l_tasks = <<>> /\ s_tasks = <<>>)
    /\ [][NothingDiscovered =>
               /\ l_output' = l_output
               /\ l_tasks' = <<>> /\ s_tasks' = <<>>
               /\ d_pc' = "returned"]_vars
    /\ NothingDiscovered ~> (d_pc = "returned")
    /\ l_variant = "data" =>
           <> (l_pc = "written" /\ l_output \notin {<<>>, OldArtifact})

\* the backup enumerator has returned after its first request failed, at a
\* bucket that holds names of the UUID shape, and the older artifact is
\* still at the output path
C33_Witness ==
    /\ d_pc = "returned"
    /\ d_failed_request = 1
    /\ \E k \in Range(d_store) : startswith(k, ch_s3 \o UuidLike("a"))
    /\ l_output = OldArtifact

\* the data enumerator has replaced the older artifact although every one
\* of its listing requests failed
C33_DataWitness ==
    /\ l_variant = "data"
    /\ l_pc = "written"
    /\ \A i \in DOMAIN l_tasks : l_tasks[i].failed_request = 1
    /\ l_output.prefixes = <<>>
    /\ l_written # <<>>

=============================================================================
